---- MODULE Spec2Model ----
(***************************************************************************)
(* Model of fastapi_testing/async_fastapi_testing.py: the PortGenerator    *)
(* allocator and the AsyncTestServer start/stop lifecycle running as       *)
(* cooperative asyncio tasks.                                              *)
(***************************************************************************)
EXTENDS Integers, Sequences, FiniteSets, Bags, TLC

\* ---------------------------------------------------------------- bounds
\* Port numbers are 1..MaxPort.
MaxPort == 2
\* Number of direct get_port / release_port calls in SpecPG.
MaxCalls == 3
\* Port range of the module-level _port_generator, scaled down.
PORT_RANGE_START == 1
PORT_RANGE_END == 2
\* AsyncTestServer handles, start()/stop() calls running at the same
\* time, and serve tasks ever created.
NumServers == 2
NumCallers == 2
MaxTasks == 3
\* AsyncTestClient: connections ever opened, the largest configured retry
\* count, client calls in progress at once, and close() calls among them
MaxConns == 2
MaxRetry == 3
NumClientCalls == 2
MaxCloses == 1
\* keys in a per-call options dict
MaxOptionKeys == 1
\* AsyncTestResponse wrappers constructed, and frames that arrive on the
\* connection
MaxResps == 2
MaxFrames == 3
\* frames the caller sends on the connection
MaxSent == 2

\* Python's None (also the falsy value tested by "if self._port").
None == 0

OSPorts == 1..MaxPort
Servers == 1..NumServers
TaskIds == 1..MaxTasks
Conns == 1..MaxConns
Resps == 1..MaxResps

VARIABLES
  \* PortGenerator fields
  start, end, used_ports,
  \* log of the direct PortGenerator calls (SpecPG)
  calls,
  \* AsyncTestServer fields, one per handle
  _server_task, _port, _client, _startup_complete, _shutdown_complete,
  \* serve tasks (asyncio.Task running UvicornTestServer.serve)
  task_status, task_owner, task_exc, should_exit, nextTask,
  \* the start() / stop() calls in progress: a bag of frames
  active,
  \* the call that returned or raised in the last step, if any
  result,
  \* global_config.WS_RETRY_ATTEMPTS
  WS_RETRY_ATTEMPTS,
  \* AsyncTestClient fields: base URL, live WebSocket connections, and
  \* whether the httpx transport has been closed
  _base_url, _websocket_connections, http_closed,
  \* WebSocket connections (ClientConnection): state, number of close()
  \* calls made on each, and the next connection to be created
  ws_state, ws_close_calls, nextConn,
  \* the close() / websocket() calls of the client in progress, and the
  \* client call that returned or raised in the last step
  cactive, cresult,
  \* AsyncTestResponse fields, one per wrapper, and the next wrapper to be
  \* constructed
  _response, _is_websocket, nextResp,
  \* frames that have arrived on the connection and are not yet received,
  \* and the number of frames that have arrived so far
  inbox, arrived,
  \* the WebSocketHelper calls in progress, and the response or helper call
  \* that returned or raised in the last step
  hactive, hresult,
  \* the frames handed to the connection for sending, and whether the peer
  \* has closed the connection
  sent, peer_closed

pgvars == <<start, end, used_ports>>
obsvars == <<calls>>
srvvars == <<_server_task, _port, _client, _startup_complete, _shutdown_complete>>
taskvars == <<task_status, task_owner, task_exc, should_exit, nextTask>>
callvars == <<active>>
wirevars == <<sent, peer_closed>>
respvars == <<_response, _is_websocket, nextResp, inbox, arrived, hactive,
              hresult, wirevars>>
connvars == <<WS_RETRY_ATTEMPTS, _base_url, _websocket_connections,
              http_closed, ws_state, ws_close_calls, nextConn, cactive,
              cresult>>
clientvars == <<connvars, respvars>>
vars == <<pgvars, obsvars, srvvars, taskvars, callvars, result, clientvars>>

\* ------------------------------------------------------- PortGenerator
SeqToSet(s) == {s[i] : i \in 1..Len(s)}

\* Mutant: the probe result is ignored.
is_port_available_always(port, bindable) == TRUE

\* is_port_available(port): the bind probe, answered by the operating system.
is_port_available(port, bindable) == port \in bindable

\* Mutant: the loop gives up after the first failed probe.
get_port_loop_first_only(available_ports, used, bindable, probed) ==
  IF available_ports = {}
  THEN {[ok |-> FALSE, port |-> None, probed |-> probed, used_ports |-> used,
         error |-> "No available ports found in range"]}
  ELSE { IF is_port_available(port, bindable)
         THEN [ok |-> TRUE, port |-> port, probed |-> Append(probed, port),
               used_ports |-> used \cup {port}, error |-> ""]
         ELSE [ok |-> FALSE, port |-> None, probed |-> Append(probed, port),
               used_ports |-> used,
               error |-> "No available ports found in range"]
         : port \in available_ports }

\* Mutant: a candidate that fails the probe is marked used.
RECURSIVE get_port_loop_marks_rejected(_, _, _, _)
get_port_loop_marks_rejected(available_ports, used, bindable, probed) ==
  IF available_ports = {}
  THEN {[ok |-> FALSE, port |-> None, probed |-> probed, used_ports |-> used,
         error |-> "No available ports found in range"]}
  ELSE UNION {
         IF is_port_available(port, bindable)
         THEN {[ok |-> TRUE, port |-> port, probed |-> Append(probed, port),
                used_ports |-> used \cup {port}, error |-> ""]}
         ELSE get_port_loop_marks_rejected(available_ports \ {port},
                            used \cup {port}, bindable, Append(probed, port))
         : port \in available_ports }

\* Mutant: the returned port is not added to used_ports.
RECURSIVE get_port_loop_forgets_add(_, _, _, _)
get_port_loop_forgets_add(available_ports, used, bindable, probed) ==
  IF available_ports = {}
  THEN {[ok |-> FALSE, port |-> None, probed |-> probed, used_ports |-> used,
         error |-> "No available ports found in range"]}
  ELSE UNION {
         IF is_port_available(port, bindable)
         THEN {[ok |-> TRUE, port |-> port, probed |-> Append(probed, port),
                used_ports |-> used, error |-> ""]}
         ELSE get_port_loop_forgets_add(available_ports \ {port}, used,
                            bindable, Append(probed, port))
         : port \in available_ports }

\* The while loop of get_port: random.choice picks any remaining candidate;
\* a candidate that fails the probe is removed from this call's pool only.
RECURSIVE get_port_loop(_, _, _, _)
get_port_loop(available_ports, used, bindable, probed) ==
  IF available_ports = {}
  THEN {[ok |-> FALSE, port |-> None, probed |-> probed, used_ports |-> used,
         error |-> "No available ports found in range"]}
  ELSE UNION {
         IF is_port_available(port, bindable)
         THEN {[ok |-> TRUE, port |-> port, probed |-> Append(probed, port),
                used_ports |-> used \cup {port}, error |-> ""]}
         ELSE get_port_loop(available_ports \ {port}, used, bindable,
                            Append(probed, port))
         : port \in available_ports }

\* Mutant: the candidate pool is the whole range, used ports included.
get_port_ignores_used(s, e, used, bindable) ==
  LET available_ports == s..e IN
  IF available_ports = {}
  THEN {[ok |-> FALSE, port |-> None, probed |-> <<>>, used_ports |-> used,
         error |-> "No available ports in range"]}
  ELSE get_port_loop(available_ports, used, bindable, <<>>)

\* get_port(): the set of outcomes the call can have.
get_port(s, e, used, bindable) ==
  LET available_ports == (s..e) \ used IN
  IF available_ports = {}
  THEN {[ok |-> FALSE, port |-> None, probed |-> <<>>, used_ports |-> used,
         error |-> "No available ports in range"]}
  ELSE get_port_loop(available_ports, used, bindable, <<>>)

\* Mutant: release forgets to remove the port.
release_port_noop(used, port) == used

\* Mutant: set.pop() instead of set.discard(port).
release_port_pop(used, port) ==
  IF used = {} THEN used ELSE used \ {CHOOSE p \in used : TRUE}

\* release_port(port): set.discard.
release_port(used, port) == used \ {port}

\* A direct call of get_port on a PortGenerator.
PGGetPort ==
  /\ Len(calls) < MaxCalls
  /\ \E bindable \in SUBSET (start..end) :
       \E out \in get_port(start, end, used_ports, bindable) :
         /\ used_ports' = out.used_ports
         /\ calls' = Append(calls,
                       [op |-> "get_port", arg |-> None, ok |-> out.ok,
                        port |-> out.port, probed |-> out.probed,
                        bindable |-> bindable, used_before |-> used_ports,
                        used_after |-> out.used_ports, error |-> out.error])
  /\ UNCHANGED <<clientvars, start, end, srvvars, taskvars, callvars, result>>

\* A direct call of release_port with any integer argument.
PGReleasePort ==
  /\ Len(calls) < MaxCalls
  /\ \E port \in (-1)..(MaxPort + 1) :
       /\ used_ports' = release_port(used_ports, port)
       /\ calls' = Append(calls,
                     [op |-> "release_port", arg |-> port, ok |-> TRUE,
                      port |-> None, probed |-> <<>>, bindable |-> {},
                      used_before |-> used_ports,
                      used_after |-> release_port(used_ports, port),
                      error |-> ""])
  /\ UNCHANGED <<clientvars, start, end, srvvars, taskvars, callvars, result>>

\* The frame of a start() or stop() call: its position, the handle, the
\* except clause a nested stop() runs under, the task and port this start()
\* created and acquired, its startup_handler event, and the task stop()'s
\* wait_for awaits.  NewCall is the frame of a call being entered.
NewCall == [pc |-> "idle", h |-> None, ctx |-> "call", task |-> None,
            port |-> None, startup_handler |-> FALSE, waits |-> None]
\* A call ending: which operation on which handle, and how it ended.  The
\* startup-timeout message names self._port as it is when start() raises.
NoResult == [op |-> "none", h |-> None, out |-> "none"]

\* DEFAULT_WS_RETRY_ATTEMPTS, the default of Config.WS_RETRY_ATTEMPTS.
DEFAULT_WS_RETRY_ATTEMPTS == 3

\* No call of the client has ended in the last step.
NoClientResult ==
  [op |-> "none", out |-> "none", conn |-> None, err |-> None, tries |-> 0,
   sleeps |-> 0]

\* AsyncTestClient.__init__: no live connection, an open transport; no
\* connection exists and no client call is in progress.
InitClient ==
  /\ _websocket_connections = {}
  /\ http_closed = FALSE
  /\ ws_state = [c \in Conns |-> "NONE"]
  /\ ws_close_calls = [c \in Conns |-> 0]
  /\ nextConn = 1
  /\ cactive = EmptyBag
  /\ cresult = NoClientResult

\* A value handled by the response wrapper and the helper: the text or
\* the bytes of a frame, a decoded JSON document, a status code, a type.
Value(kind, data) == [kind |-> kind, data |-> data]
NoValue == Value("none", "")
\* No response or helper call has ended in the last step.  A result
\* names the wrapper, how the call ended, the value returned, the frame
\* taken from the connection, and the values an error message carries.
NoHelperResult ==
  [op |-> "none", resp |-> None, out |-> "none", arg |-> NoValue,
   value |-> NoValue, frame |-> NoValue, expected |-> NoValue,
   got |-> NoValue, messages |-> <<>>]
\* What a wrapper slot holds before the wrapper is constructed.
NoObject == [kind |-> "none", status_code |-> 0, body |-> ""]

\* No wrapper has been constructed, no frame has arrived, and no helper
\* call is in progress.
InitResponses ==
  /\ _response = [r \in Resps |-> NoObject]
  /\ _is_websocket = [r \in Resps |-> FALSE]
  /\ nextResp = 1
  /\ inbox = <<>>
  /\ arrived = 0
  /\ hactive = EmptyBag
  /\ hresult = NoHelperResult
  /\ sent = <<>>
  /\ peer_closed = FALSE

\* State shared by the specifications after construction.
InitRest ==
  /\ WS_RETRY_ATTEMPTS = DEFAULT_WS_RETRY_ATTEMPTS
  /\ _base_url = "http://"
  /\ InitClient
  /\ InitResponses
  /\ used_ports = {}
  /\ calls = <<>>
  /\ _server_task = [h \in Servers |-> None]
  /\ _port = [h \in Servers |-> None]
  /\ _client = [h \in Servers |-> None]
  /\ _startup_complete = [h \in Servers |-> FALSE]
  /\ _shutdown_complete = [h \in Servers |-> FALSE]
  /\ task_status = [t \in TaskIds |-> "none"]
  /\ task_owner = [t \in TaskIds |-> None]
  /\ task_exc = [t \in TaskIds |-> FALSE]
  /\ should_exit = [t \in TaskIds |-> FALSE]
  /\ nextTask = 1
  /\ active = EmptyBag
  /\ result = NoResult

\* PortGenerator(start, end) for any range, including start > end.
PGInit ==
  /\ start \in OSPorts
  /\ end \in {0} \cup OSPorts
  /\ InitRest

PGNext == PGGetPort \/ PGReleasePort

SpecPG == PGInit /\ [][PGNext]_vars

\* ----------------------------------------------------- AsyncTestServer
\* The task is running; "cancelling" is a task whose cancellation has been
\* requested and that has not ended yet.
Alive(t) == task_status[t] \in {"starting", "serving", "cancelling"}
\* The task has ended: by returning or raising ("done"), without ever
\* listening because the application's startup failed ("failed"), or by a
\* cancellation that was requested earlier ("cancelled").
TaskDone(t) == task_status[t] \in {"done", "failed", "cancelled"}
Frames == BagToSet(active)
Without(old) == IF old.pc = "idle" THEN active ELSE active (-) SetToBag({old})

Untouched(h) ==
  /\ _server_task[h] = None /\ _port[h] = None /\ _client[h] = None
  /\ ~_startup_complete[h] /\ ~_shutdown_complete[h]
  /\ \A fr \in Frames : fr.h # h
  /\ \A t \in TaskIds : task_owner[t] # h
FirstUntouched(h) == Untouched(h) => \A g \in Servers : g < h => ~Untouched(g)

\* A call suspends at an await: its frame is kept for the resumption.
Suspend(old, new) ==
  /\ active' = Without(old) (+) SetToBag({new})
  /\ result' = NoResult

\* A call returns or raises: its frame is gone.
Return(old, h, op, out) ==
  /\ active' = Without(old)
  /\ result' = [op |-> op, h |-> h, out |-> out]

\* stop() returns normally: to its caller, or into the except clause of
\* start(), which raises the timeout error naming self._port or re-raises.
StopReturn(old, h, fr) ==
  IF fr.ctx = "call" THEN Return(old, h, "stop", "ok")
  ELSE IF fr.ctx = "timeout"
  THEN Return(old, h, "start", "StartupTimedOut")
  ELSE Return(old, h, "start", "StartError")

\* stop() raises what the awaited serve task raised; inside start()'s except
\* clause that exception replaces the one being handled.
StopRaise(old, h, fr) ==
  IF fr.ctx = "call" THEN Return(old, h, "stop", "StopError")
  ELSE Return(old, h, "start", "StopError")

\* Mutant: a stop() on a handle that holds no port releases a port all the
\* same.
StopFinish_releases_any(old, h, fr, client1, task1) ==
  /\ used_ports' = IF _port[h] # None
                   THEN release_port(used_ports, _port[h])
                   ELSE IF used_ports = {} THEN used_ports
                   ELSE used_ports \ {CHOOSE p \in used_ports : TRUE}
  /\ _port' = [_port EXCEPT ![h] = None]
  /\ _shutdown_complete' = [_shutdown_complete EXCEPT ![h] = TRUE]
  /\ _client' = client1
  /\ _server_task' = task1
  /\ StopReturn(old, h, fr)

\* Mutant: stop() forgets to give the port back to the allocator.
StopFinish_keeps_port(old, h, fr, client1, task1) ==
  /\ used_ports' = used_ports
  /\ _port' = [_port EXCEPT ![h] = None]
  /\ _shutdown_complete' = [_shutdown_complete EXCEPT ![h] = TRUE]
  /\ _client' = client1
  /\ _server_task' = task1
  /\ StopReturn(old, h, fr)

\* stop(), release of the port and shutdown-complete.
StopFinish(old, h, fr, client1, task1) ==
  /\ used_ports' = IF _port[h] # None
                   THEN release_port(used_ports, _port[h]) ELSE used_ports
  /\ _port' = [_port EXCEPT ![h] = None]
  /\ _shutdown_complete' = [_shutdown_complete EXCEPT ![h] = TRUE]
  /\ _client' = client1
  /\ _server_task' = task1
  /\ StopReturn(old, h, fr)

\* stop(), after wait_for(self._server_task) ended: the finally clause
\* clears the task; an exception of the task propagates.
StopAfterWait(old, h, fr, t) ==
  IF task_exc[t]
  THEN /\ _server_task' = [_server_task EXCEPT ![h] = None]
       /\ StopRaise(old, h, fr)
       /\ UNCHANGED <<used_ports, _port, _shutdown_complete, _client>>
  ELSE StopFinish(old, h, fr, _client, [_server_task EXCEPT ![h] = None])

\* stop(), from "if self._server_task": ask the serve loop to exit and
\* await the task, or go on to the release when there is no task.
StopServerPart(old, h, fr, client1) ==
  IF _server_task[h] # None
  THEN /\ should_exit' = IF Alive(_server_task[h])
                          THEN [should_exit EXCEPT ![_server_task[h]] = TRUE]
                          ELSE should_exit
       /\ Suspend(old, [fr EXCEPT !.pc = "stop_wait",
                                  !.waits = _server_task[h]])
       /\ _client' = client1
       /\ UNCHANGED <<used_ports, _port, _shutdown_complete, _server_task>>
  ELSE /\ StopFinish(old, h, fr, client1, _server_task)
       /\ UNCHANGED should_exit

\* stop(), from its first line to its first suspension.
StopEnter(old, h, fr) ==
  IF ~_startup_complete[h]
  THEN /\ StopReturn(old, h, fr)
       /\ UNCHANGED <<used_ports, _port, _shutdown_complete, _client,
                      _server_task, should_exit>>
  ELSE IF _client[h] # None
  THEN /\ Suspend(old, [fr EXCEPT !.pc = "stop_close"])
       /\ UNCHANGED <<used_ports, _port, _shutdown_complete, _client,
                      _server_task, should_exit>>
  ELSE StopServerPart(old, h, fr, _client)

\* A coroutine calls stop() on a handle.
StopCall(h) ==
  /\ BagCardinality(active) < NumCallers
  /\ FirstUntouched(h)
  /\ StopEnter(NewCall, h, [NewCall EXCEPT !.h = h])
  /\ UNCHANGED <<clientvars, start, end, calls, _startup_complete, task_status,
                 task_owner, task_exc, nextTask>>

\* stop() resumes after "await self._client.close()".
StopCloseDone(fr) ==
  /\ fr.pc = "stop_close"
  /\ StopServerPart(fr, fr.h, fr, [_client EXCEPT ![fr.h] = None])
  /\ UNCHANGED <<clientvars, start, end, calls, _startup_complete, task_status,
                 task_owner, task_exc, nextTask>>

\* Another stop() call awaits the same task as the call with frame fr.
OtherWaiter(fr) ==
  \/ CopiesIn(fr, active) > 1
  \/ \E fr2 \in Frames : fr2 # fr /\ fr2.waits = fr.waits

\* stop() resumes after the awaited serve task has finished.  The task's
\* exception is kept only while another stop() still awaits the task.
StopWaitDone(fr) ==
  /\ fr.pc = "stop_wait"
  /\ TaskDone(fr.waits)
  /\ StopAfterWait(fr, fr.h, fr, fr.waits)
  /\ task_exc' = IF OtherWaiter(fr) THEN task_exc
                 ELSE [task_exc EXCEPT ![fr.waits] = FALSE]
  /\ UNCHANGED <<clientvars, start, end, calls, _startup_complete, task_status,
                 task_owner, nextTask, should_exit>>

\* A serve task finishes: its server object and owner are no longer read.
Finish(t) ==
  /\ task_status' = [task_status EXCEPT ![t] = "done"]
  /\ task_owner' = [task_owner EXCEPT ![t] = None]
  /\ should_exit' = [should_exit EXCEPT ![t] = FALSE]

\* shutdown_timeout expires in stop(): the serve task is cancelled and its
\* cancellation completes; every coroutine awaiting it can then resume.
StopWaitTimeout(fr) ==
  /\ fr.pc = "stop_wait"
  /\ Alive(fr.waits)
  /\ Finish(fr.waits)
  /\ result' = NoResult
  /\ UNCHANGED <<clientvars, pgvars, calls, srvvars, task_exc, nextTask, callvars>>

\* Mutant: start() tests the client instead of the serve task.
is_running_by_client(h) == _client[h] # None

\* The test at the top of start(): "self._server_task is not None".
is_running(h) == _server_task[h] # None

\* A coroutine calls start() on a handle.
StartCall(h) ==
  /\ BagCardinality(active) < NumCallers
  /\ FirstUntouched(h)
  /\ IF is_running(h)
     THEN /\ Return(NewCall, h, "start", "AlreadyRunning")
          /\ UNCHANGED <<used_ports, srvvars, taskvars>>
     ELSE \E bindable \in SUBSET (start..end) :
            \E out \in get_port(start, end, used_ports, bindable) :
              IF ~out.ok
              THEN /\ Return(NewCall, h, "start", "NoPorts")
                   /\ UNCHANGED <<used_ports, srvvars, taskvars>>
              ELSE /\ nextTask <= MaxTasks
                   /\ used_ports' = out.used_ports
                   /\ _port' = [_port EXCEPT ![h] = out.port]
                   /\ _server_task' = [_server_task EXCEPT ![h] = nextTask]
                   /\ task_status' = [task_status EXCEPT ![nextTask] = "starting"]
                   /\ task_owner' = [task_owner EXCEPT ![nextTask] = h]
                   /\ nextTask' = nextTask + 1
                   /\ Suspend(NewCall,
                              [NewCall EXCEPT !.pc = "start_wait", !.h = h,
                                              !.task = nextTask,
                                              !.port = out.port])
                   /\ UNCHANGED <<_client, _startup_complete,
                                  _shutdown_complete, task_exc, should_exit>>
  /\ UNCHANGED <<clientvars, start, end, calls>>

\* start() resumes because startup_handler is set: it builds the client
\* from base_url (which raises when self._port is unset) and sets
\* startup-complete.
StartReady(fr) ==
  /\ fr.pc = "start_wait"
  /\ fr.startup_handler
  /\ IF _port[fr.h] = None
     THEN /\ StopEnter(fr, fr.h, [fr EXCEPT !.ctx = "error"])
          /\ UNCHANGED _startup_complete
     ELSE /\ _client' = [_client EXCEPT ![fr.h] = _port[fr.h]]
          /\ _startup_complete' = [_startup_complete EXCEPT ![fr.h] = TRUE]
          /\ Return(fr, fr.h, "start", "ok")
          /\ UNCHANGED <<used_ports, _port, _shutdown_complete, _server_task,
                         should_exit>>
  /\ UNCHANGED <<clientvars, start, end, calls, task_status, task_owner, task_exc,
                 nextTask>>

\* startup_timeout expires in start() before startup_handler is set.
StartTimeout(fr) ==
  /\ fr.pc = "start_wait"
  /\ ~fr.startup_handler
  /\ StopEnter(fr, fr.h, [fr EXCEPT !.ctx = "timeout"])
  /\ UNCHANGED <<clientvars, start, end, calls, _startup_complete, task_status,
                 task_owner, task_exc, nextTask>>

\* The frame of the start() call that waits for task t's startup_handler,
\* with the event set.
SetHandler(t) ==
  IF \E fr \in Frames : fr.pc = "start_wait" /\ fr.task = t
  THEN LET fr == CHOOSE f \in Frames : f.pc = "start_wait" /\ f.task = t
       IN (active (-) SetToBag({fr}))
            (+) SetToBag({[fr EXCEPT !.startup_handler = TRUE]})
  ELSE active

\* UvicornTestServer.startup completes and sets the startup_handler event
\* of the start() call that created the task, if that call still waits.
ServeStartup(t) ==
  /\ task_status[t] = "starting"
  /\ task_status' = [task_status EXCEPT ![t] = "serving"]
  /\ active' = SetHandler(t)
  /\ result' = NoResult
  /\ UNCHANGED <<clientvars, pgvars, calls, srvvars, task_owner, task_exc, should_exit,
                 nextTask>>

\* The serve loop sees should_exit and the task finishes.
ServeExit(t) ==
  /\ task_status[t] = "serving"
  /\ should_exit[t]
  /\ Finish(t)
  /\ result' = NoResult
  /\ UNCHANGED <<clientvars, pgvars, calls, srvvars, task_exc, nextTask, callvars>>

\* The serve task ends with an exception, which a stop() awaiting the task
\* now or later will see.
ServeCrash(t) ==
  /\ Alive(t)
  /\ Finish(t)
  /\ task_exc' = IF \/ \E h \in Servers : _server_task[h] = t
                    \/ \E fr \in Frames : fr.waits = t
                 THEN [task_exc EXCEPT ![t] = TRUE]
                 ELSE task_exc
  /\ result' = NoResult
  /\ UNCHANGED <<clientvars, pgvars, calls, srvvars, nextTask, callvars>>

\* UvicornTestServer.startup when the application's lifespan startup fails
\* and the base class's startup returns without listening: the
\* startup_handler event is set all the same, and serve() returns.
ServeStartupFailed(t) ==
  /\ task_status[t] = "starting"
  /\ task_status' = [task_status EXCEPT ![t] = "failed"]
  /\ task_owner' = [task_owner EXCEPT ![t] = None]
  /\ should_exit' = [should_exit EXCEPT ![t] = FALSE]
  /\ active' = SetHandler(t)
  /\ result' = NoResult
  /\ UNCHANGED <<clientvars, pgvars, calls, srvvars, task_exc, nextTask>>

\* start() resumes because startup_handler is set, and the construction of
\* AsyncTestClient raises: the except clause runs stop() and re-raises.
StartClientRaises(fr) ==
  /\ fr.pc = "start_wait"
  /\ fr.startup_handler
  /\ _port[fr.h] # None
  /\ StopEnter(fr, fr.h, [fr EXCEPT !.ctx = "error"])
  /\ UNCHANGED <<clientvars, start, end, calls, _startup_complete, task_status,
                 task_owner, task_exc, nextTask>>

\* The module-level _port_generator = PortGenerator() and fresh handles.
Init ==
  /\ start = PORT_RANGE_START
  /\ end = PORT_RANGE_END
  /\ InitRest

Next ==
  \/ \E h \in Servers : StartCall(h)
  \/ \E fr \in Frames : StartReady(fr)
  \/ \E fr \in Frames : StartTimeout(fr)
  \/ \E h \in Servers : StopCall(h)
  \/ \E fr \in Frames : StopCloseDone(fr)
  \/ \E fr \in Frames : StopWaitDone(fr)
  \/ \E fr \in Frames : StopWaitTimeout(fr)
  \/ \E t \in TaskIds : ServeStartup(t)
  \/ \E t \in TaskIds : ServeExit(t)

\* The serve task ends only by returning or by being cancelled.
Spec == Init /\ [][Next]_vars

\* The serve task may also end with an exception of its own.
NextCrash ==
  \/ Next
  \/ \E t \in TaskIds : ServeCrash(t)

SpecCrash == Init /\ [][NextCrash]_vars

\* stop() resumes from "await self._client.close()" with the exception
\* that closing the client raised: nothing after that line has run.
StopCloseRaises(fr) ==
  /\ fr.pc = "stop_close"
  /\ StopRaise(fr, fr.h, fr)
  /\ UNCHANGED <<clientvars, pgvars, calls, srvvars, taskvars>>

\* The serve task may end with an exception, and closing the client may
\* raise.
NextStopFails ==
  \/ NextCrash
  \/ \E fr \in Frames : StopCloseRaises(fr)

SpecStopFails == Init /\ [][NextStopFails]_vars

\* The application may fail while starting up, and building the client may
\* fail.
NextFail ==
  \/ Next
  \/ \E t \in TaskIds : ServeStartupFailed(t)
  \/ \E fr \in Frames : StartClientRaises(fr)

SpecFail == Init /\ [][NextFail]_vars

\* The task awaiting start() is cancelled while start() waits for
\* startup_handler: CancelledError is not an Exception, so the except
\* clause does not run and the error leaves start() as it is.
StartCancelled(fr) ==
  /\ fr.pc = "start_wait"
  /\ Return(fr, fr.h, "start", "Cancelled")
  /\ UNCHANGED <<clientvars, pgvars, calls, srvvars, taskvars>>

\* The task awaiting stop() is cancelled during "await self._client.close()":
\* the error leaves stop(), and start() when stop() runs in its except
\* clause; self._client is not cleared.
StopCancelledInClose(fr) ==
  /\ fr.pc = "stop_close"
  /\ Return(fr, fr.h, IF fr.ctx = "call" THEN "stop" ELSE "start", "Cancelled")
  /\ UNCHANGED <<clientvars, pgvars, calls, srvvars, taskvars>>

\* The task awaiting stop() is cancelled during wait_for(self._server_task):
\* wait_for passes the cancellation on to the serve task and waits for it
\* to end.
StopCancelledInWait(fr) ==
  /\ fr.pc = "stop_wait"
  /\ task_status[fr.waits] \in {"starting", "serving"}
  /\ task_status' = [task_status EXCEPT ![fr.waits] = "cancelling"]
  /\ result' = NoResult
  /\ UNCHANGED <<clientvars, pgvars, calls, srvvars, task_owner, task_exc, should_exit,
                 nextTask, callvars>>

\* Mutant: the shutdown timeout does not cancel the serve task.
StopWaitTimeoutBegins_no_cancel(fr) ==
  /\ fr.pc = "stop_wait"
  /\ task_status[fr.waits] \in {"starting", "serving"}
  /\ UNCHANGED vars

\* shutdown_timeout expires: wait_for cancels the serve task and waits for
\* it to end before it raises TimeoutError.
StopWaitTimeoutBegins(fr) ==
  /\ fr.pc = "stop_wait"
  /\ task_status[fr.waits] \in {"starting", "serving"}
  /\ task_status' = [task_status EXCEPT ![fr.waits] = "cancelling"]
  /\ result' = NoResult
  /\ UNCHANGED <<clientvars, pgvars, calls, srvvars, task_owner, task_exc, should_exit,
                 nextTask, callvars>>

\* A serve task whose cancellation was requested ends.
TaskCancelEnds(t) ==
  /\ task_status[t] = "cancelling"
  /\ task_status' = [task_status EXCEPT ![t] = "cancelled"]
  /\ task_owner' = [task_owner EXCEPT ![t] = None]
  /\ should_exit' = [should_exit EXCEPT ![t] = FALSE]
  /\ result' = NoResult
  /\ UNCHANGED <<clientvars, pgvars, calls, srvvars, task_exc, nextTask, callvars>>

\* The task awaiting stop() is cancelled while wait_for waits for the
\* cancelled serve task to end (wait_for of Python 3.11 and earlier gives up
\* that wait): the CancelledError is caught by stop()'s
\* "except asyncio.CancelledError" and stop() goes on with the finally
\* clause and the release of the port.
StopCancelledAgain(fr) ==
  /\ fr.pc = "stop_wait"
  /\ task_status[fr.waits] = "cancelling"
  /\ StopFinish(fr, fr.h, fr, _client, [_server_task EXCEPT ![fr.h] = None])
  /\ UNCHANGED <<clientvars, start, end, calls, _startup_complete, taskvars>>

\* No start() or stop() call is in progress on handle h.
Exclusive(h) == \A fr \in Frames : fr.h # h

\* Calls on one handle follow one another (calls on different handles
\* overlap); startups and client construction may fail, serve tasks may
\* crash and the calling task may be cancelled.
NextSeq ==
  \/ \E h \in Servers : Exclusive(h) /\ StartCall(h)
  \/ \E h \in Servers : Exclusive(h) /\ StopCall(h)
  \/ \E fr \in Frames : StartReady(fr)
  \/ \E fr \in Frames : StartTimeout(fr)
  \/ \E fr \in Frames : StopCloseDone(fr)
  \/ \E fr \in Frames : StopWaitDone(fr)
  \/ \E fr \in Frames : StopWaitTimeout(fr)
  \/ \E t \in TaskIds : ServeStartup(t)
  \/ \E t \in TaskIds : ServeExit(t)
  \/ \E t \in TaskIds : ServeStartupFailed(t)
  \/ \E t \in TaskIds : ServeCrash(t)
  \/ \E fr \in Frames : StartClientRaises(fr)
  \/ \E fr \in Frames : StartCancelled(fr)
  \/ \E fr \in Frames : StopCancelledInClose(fr)
  \/ \E fr \in Frames : StopCancelledInWait(fr)
  \/ \E fr \in Frames : StopWaitTimeoutBegins(fr)
  \/ \E fr \in Frames : StopCancelledAgain(fr)
  \/ \E t \in TaskIds : TaskCancelEnds(t)

SpecSeq == Init /\ [][NextSeq]_vars

\* Calls on one handle follow one another; the shutdown timeout cancels the
\* serve task, which then ends.
StopTimesOut(h) ==
  \E fr \in Frames : fr.h = h /\ StopWaitTimeoutBegins(fr)
StopResumes(h) ==
  \E fr \in Frames : fr.h = h /\ StopWaitDone(fr)

NextTimeout ==
  \/ \E h \in Servers : Exclusive(h) /\ StartCall(h)
  \/ \E h \in Servers : Exclusive(h) /\ StopCall(h)
  \/ \E fr \in Frames : StartReady(fr)
  \/ \E fr \in Frames : StartTimeout(fr)
  \/ \E fr \in Frames : StopCloseDone(fr)
  \/ \E h \in Servers : StopResumes(h)
  \/ \E h \in Servers : StopTimesOut(h)
  \/ \E t \in TaskIds : TaskCancelEnds(t)
  \/ \E t \in TaskIds : ServeStartup(t)
  \/ \E t \in TaskIds : ServeExit(t)

\* wait_for's timeout fires when the awaited task has not ended, a
\* cancelled serve task ends, and the event loop resumes a stop() whose
\* awaited task has ended.
SpecTimeout ==
  /\ Init /\ [][NextTimeout]_vars
  /\ \A h \in Servers : WF_vars(StopTimesOut(h)) /\ WF_vars(StopResumes(h))
  /\ \A t \in TaskIds : WF_vars(TaskCancelEnds(t))

\* ------------------------------------------------------ AsyncTestClient

\* Keys of the keyword arguments websocket() passes to connect().
KwKeys ==
  {"open_timeout", "max_size", "max_queue", "subprotocols", "compression",
   "additional_headers", "ping_interval", "ping_timeout"}
\* A key that is not in a dict.
Absent == -1
\* self._timeout, global_config.WS_MAX_MESSAGE_SIZE and
\* global_config.WS_MAX_QUEUE_SIZE as values of connect options.
ClientTimeout == 1
WS_MAX_MESSAGE_SIZE == 1
WS_MAX_QUEUE_SIZE == 1
\* websocket() called without config and without options.
NoConfig ==
  [given |-> FALSE, subprotocols |-> 0, compression |-> 0,
   extra_headers |-> 0, ping_interval |-> 0, ping_timeout |-> 0,
   max_size |-> 0, max_queue |-> 0, timeout |-> 0]
NoOptions == [k \in KwKeys |-> Absent]
\* WebSocketConfig objects: a field is None (0) or set (2); max_size and
\* max_queue default to the global values and are never None.
Configs ==
  [given : {TRUE}, subprotocols : {0, 2}, compression : {0, 2},
   extra_headers : {0, 2}, ping_interval : {0, 2}, ping_timeout : {0, 2},
   max_size : {WS_MAX_MESSAGE_SIZE, 2}, max_queue : {WS_MAX_QUEUE_SIZE, 2},
   timeout : {0, 2}]
\* Per-call options dicts with at most MaxOptionKeys keys, each key mapped
\* to None (0) or to a value (3).
OptionDicts ==
  {o \in [KwKeys -> {Absent, 0, 3}] :
     Cardinality({k \in KwKeys : o[k] # Absent}) <= MaxOptionKeys}

\* The keyword arguments websocket() builds: the defaults, then the truthy
\* fields of the config that the code copies, then every key of options.
\* A config value 0 stands for None or another falsy value.
connect_kwargs(config, options) ==
  LET defaults == [k \in KwKeys |->
                     CASE k = "open_timeout" -> ClientTimeout
                       [] k = "max_size" -> WS_MAX_MESSAGE_SIZE
                       [] k = "max_queue" -> WS_MAX_QUEUE_SIZE
                       [] OTHER -> Absent]
      Copy(kw, k, v) == IF v # 0 THEN [kw EXCEPT ![k] = v] ELSE kw
      c1 == IF ~config.given THEN defaults
            ELSE Copy(Copy(Copy(Copy(Copy(Copy(defaults,
                   "subprotocols", config.subprotocols),
                   "compression", config.compression),
                   "additional_headers", config.extra_headers),
                   "ping_interval", config.ping_interval),
                   "ping_timeout", config.ping_timeout),
                   "open_timeout", config.timeout)
  IN [k \in KwKeys |-> IF options[k] # Absent THEN options[k] ELSE c1[k]]

\* The frame of a close() or websocket() call of the client: its position,
\* for close() the connections in the list it iterates over, the rest of
\* that list, the connection it
\* is closing, the number of errors it has logged and, once it has cleared
\* the live set, the first connection that can only have been opened after
\* that; for websocket() its config and options arguments, the attempt
\* counter, the handshakes started, the retry sleeps started and the
\* keyword arguments passed to connect().
NewClientCall ==
  [op |-> "none", pc |-> "idle", snap |-> {}, todo |-> <<>>, cur |-> None,
   logged |-> 0, mark |-> None, config |-> NoConfig, options |-> NoOptions,
   attempt |-> 0, tries |-> 0, sleeps |-> 0, kwargs |-> NoOptions]
ClientFrames == BagToSet(cactive)
ClientWithout(old) ==
  IF old.pc = "idle" THEN cactive ELSE cactive (-) SetToBag({old})

\* The close() calls that have started and not returned.
ClosesInFlight ==
  BagCardinality([fr \in {f \in ClientFrames : f.op = "close"} |->
                    CopiesIn(fr, cactive)])

\* The orders in which a for loop may visit the elements of a set.
Orders(S) ==
  {q \in [1..Cardinality(S) -> S] : \A i, j \in 1..Cardinality(S) :
                                      i # j => q[i] # q[j]}

\* Mutant: close() does not clear the set after the loop.
RECURSIVE CloseLoop_no_clear(_, _, _)
CloseLoop_no_clear(todo, conns, states) ==
  IF todo = <<>>
  THEN [pc |-> "aclose", cur |-> None, todo |-> <<>>, conns |-> conns]
  ELSE IF states[Head(todo)] = "CLOSED"
  THEN CloseLoop_no_clear(Tail(todo), conns \ {Head(todo)}, states)
  ELSE [pc |-> "ws_close", cur |-> Head(todo), todo |-> Tail(todo),
        conns |-> conns]

\* close(), the for loop from its next element up to its next suspension:
\* a connection found CLOSED is discarded at once; on another one
\* ws.close() is awaited; after the loop the set is cleared and
\* self._client.aclose() is awaited.  states are the connection states as
\* the loop sees them.
RECURSIVE CloseLoop(_, _, _)
CloseLoop(todo, conns, states) ==
  IF todo = <<>>
  THEN [pc |-> "aclose", cur |-> None, todo |-> <<>>, conns |-> {}]
  ELSE IF states[Head(todo)] = "CLOSED"
  THEN CloseLoop(Tail(todo), conns \ {Head(todo)}, states)
  ELSE [pc |-> "ws_close", cur |-> Head(todo), todo |-> Tail(todo),
        conns |-> conns]

\* close() goes on from the frame old to its next suspension r, with
\* states the connection states at this point and logged its count of
\* logged errors.
CloseStep(old, r, states, logged) ==
  /\ _websocket_connections' = r.conns
  /\ ws_state' = IF r.pc = "ws_close" /\ states[r.cur] = "OPEN"
                 THEN [states EXCEPT ![r.cur] = "CLOSING"] ELSE states
  /\ ws_close_calls' = IF r.pc = "ws_close"
                       THEN [ws_close_calls EXCEPT ![r.cur] = @ + 1]
                       ELSE ws_close_calls
  /\ cactive' = ClientWithout(old) (+)
                  SetToBag({[NewClientCall EXCEPT !.op = "close",
                               !.snap = IF old.pc = "idle"
                                        THEN _websocket_connections
                                        ELSE old.snap,
                               !.pc = r.pc, !.todo = r.todo, !.cur = r.cur,
                               !.logged = logged,
                               !.mark = IF r.pc = "aclose" THEN nextConn
                                        ELSE None]})
  /\ cresult' = NoClientResult
  /\ UNCHANGED <<WS_RETRY_ATTEMPTS, _base_url, http_closed, nextConn>>

\* A coroutine calls close() on the client.
CloseCall ==
  /\ BagCardinality(cactive) < NumClientCalls
  /\ ClosesInFlight < MaxCloses
  /\ \E order \in Orders(_websocket_connections) :
       CloseStep(NewClientCall,
                 CloseLoop(order, _websocket_connections, ws_state),
                 ws_state, 0)
  /\ UNCHANGED <<pgvars, obsvars, srvvars, taskvars, callvars, result,
                 respvars>>

\* ws.close() awaited by close() returns: the connection is closed and is
\* discarded from the live set.
CloseWsDone(fr) ==
  /\ fr.op = "close" /\ fr.pc = "ws_close"
  /\ LET states == [ws_state EXCEPT ![fr.cur] = "CLOSED"]
     IN CloseStep(fr,
                  CloseLoop(fr.todo, _websocket_connections \ {fr.cur},
                            states),
                  states, fr.logged)
  /\ UNCHANGED <<pgvars, obsvars, srvvars, taskvars, callvars, result,
                 respvars>>

\* Mutant: an error of ws.close() ends the loop.
CloseWsRaises_stops(fr) ==
  /\ fr.op = "close" /\ fr.pc = "ws_close"
  /\ CloseStep(fr, CloseLoop(<<>>, _websocket_connections, ws_state),
               ws_state, fr.logged + 1)
  /\ UNCHANGED <<pgvars, obsvars, srvvars, taskvars, callvars, result,
                 respvars>>

\* ws.close() awaited by close() raises an Exception: it is logged, the
\* connection is not discarded, and the loop goes on.
CloseWsRaises(fr) ==
  /\ fr.op = "close" /\ fr.pc = "ws_close"
  /\ CloseStep(fr, CloseLoop(fr.todo, _websocket_connections, ws_state),
               ws_state, fr.logged + 1)
  /\ UNCHANGED <<pgvars, obsvars, srvvars, taskvars, callvars, result,
                 respvars>>

\* self._client.aclose() returns and close() returns.
CloseHttpDone(fr) ==
  /\ fr.op = "close" /\ fr.pc = "aclose"
  /\ http_closed' = TRUE
  /\ cactive' = ClientWithout(fr)
  /\ cresult' = [NoClientResult EXCEPT !.op = "close", !.out = "ok",
                                      !.err = fr.logged]
  /\ UNCHANGED <<WS_RETRY_ATTEMPTS, _base_url, _websocket_connections,
                 ws_state, ws_close_calls, nextConn>>
  /\ UNCHANGED <<pgvars, obsvars, srvvars, taskvars, callvars, result,
                 respvars>>

\* The peer, or the test through the connection itself, closes an open
\* connection.
PeerCloses(c) ==
  /\ ws_state[c] = "OPEN"
  /\ ws_state' = [ws_state EXCEPT ![c] = "CLOSED"]
  /\ cresult' = NoClientResult
  /\ UNCHANGED <<WS_RETRY_ATTEMPTS, _base_url, _websocket_connections,
                 http_closed, ws_close_calls, nextConn, cactive>>
  /\ UNCHANGED <<pgvars, obsvars, srvvars, taskvars, callvars, result,
                 respvars>>

\* The WebSocket URL scheme websocket() derives from the base URL.
ws_url(base) ==
  IF base = "https://" THEN "wss://"
  ELSE IF base = "http://" THEN "ws://"
  ELSE "ws://" \o base

\* A coroutine calls websocket(path, config, options): an invalid base URL
\* raises ValueError; otherwise the first handshake is awaited.
WsCall(config, options) ==
  /\ BagCardinality(cactive) < NumClientCalls
  /\ IF _base_url \notin {"http://", "https://"}
     THEN /\ cactive' = cactive
          /\ cresult' = [NoClientResult EXCEPT !.op = "websocket",
                                              !.out = "ValueError"]
     ELSE /\ cactive' = cactive (+)
                          SetToBag({[NewClientCall EXCEPT
                                       !.op = "websocket", !.pc = "connect",
                                       !.tries = 1, !.config = config,
                                       !.options = options,
                                       !.kwargs = connect_kwargs(config,
                                                                 options)]})
          /\ cresult' = NoClientResult
  /\ UNCHANGED <<WS_RETRY_ATTEMPTS, _base_url, _websocket_connections,
                 http_closed, ws_state, ws_close_calls, nextConn>>
  /\ UNCHANGED <<pgvars, obsvars, srvvars, taskvars, callvars, result,
                 respvars>>

\* Mutant: websocket() returns the response without registering the
\* connection.
ConnectOk_unregistered(fr) ==
  /\ fr.op = "websocket" /\ fr.pc = "connect"
  /\ nextConn <= MaxConns
  /\ ws_state' = [ws_state EXCEPT ![nextConn] = "OPEN"]
  /\ nextConn' = nextConn + 1
  /\ cactive' = ClientWithout(fr)
  /\ cresult' = [NoClientResult EXCEPT !.op = "websocket", !.out = "ok",
                                      !.conn = nextConn, !.tries = fr.tries,
                                      !.sleeps = fr.sleeps]
  /\ UNCHANGED <<WS_RETRY_ATTEMPTS, _base_url, _websocket_connections,
                 http_closed, ws_close_calls>>
  /\ UNCHANGED <<pgvars, obsvars, srvvars, taskvars, callvars, result,
                 respvars>>

\* connect() returns a connection: websocket() adds it to the live set and
\* returns the response that wraps it.
ConnectOk(fr) ==
  /\ fr.op = "websocket" /\ fr.pc = "connect"
  /\ nextConn <= MaxConns
  /\ ws_state' = [ws_state EXCEPT ![nextConn] = "OPEN"]
  /\ nextConn' = nextConn + 1
  /\ _websocket_connections' = _websocket_connections \cup {nextConn}
  /\ cactive' = ClientWithout(fr)
  /\ cresult' = [NoClientResult EXCEPT !.op = "websocket", !.out = "ok",
                                      !.conn = nextConn, !.tries = fr.tries,
                                      !.sleeps = fr.sleeps]
  /\ UNCHANGED <<WS_RETRY_ATTEMPTS, _base_url, http_closed, ws_close_calls>>
  /\ UNCHANGED <<pgvars, obsvars, srvvars, taskvars, callvars, result,
                 respvars>>

\* Mutant: websocket() sleeps for the retry delay before it re-raises the
\* error of the last handshake.
ConnectFails_sleeps_last(fr) ==
  /\ fr.op = "websocket" /\ fr.pc = "connect"
  /\ IF fr.attempt + 1 >= WS_RETRY_ATTEMPTS
     THEN /\ cactive' = ClientWithout(fr)
          /\ cresult' = [NoClientResult EXCEPT !.op = "websocket",
                                              !.out = "ConnectError",
                                              !.err = fr.tries,
                                              !.tries = fr.tries,
                                              !.sleeps = fr.sleeps + 1]
     ELSE /\ cactive' = ClientWithout(fr) (+)
                          SetToBag({[fr EXCEPT !.pc = "sleep",
                                               !.attempt = fr.attempt + 1,
                                               !.sleeps = fr.sleeps + 1]})
          /\ cresult' = NoClientResult
  /\ UNCHANGED <<WS_RETRY_ATTEMPTS, _base_url, _websocket_connections,
                 http_closed, ws_state, ws_close_calls, nextConn>>
  /\ UNCHANGED <<pgvars, obsvars, srvvars, taskvars, callvars, result,
                 respvars>>

\* Mutant: one more handshake than configured.
ConnectFails_one_more(fr) ==
  /\ fr.op = "websocket" /\ fr.pc = "connect"
  /\ IF fr.attempt + 1 > WS_RETRY_ATTEMPTS
     THEN /\ cactive' = ClientWithout(fr)
          /\ cresult' = [NoClientResult EXCEPT !.op = "websocket",
                                              !.out = "ConnectError",
                                              !.err = fr.tries,
                                              !.tries = fr.tries,
                                              !.sleeps = fr.sleeps]
     ELSE /\ cactive' = ClientWithout(fr) (+)
                          SetToBag({[fr EXCEPT !.pc = "sleep",
                                               !.attempt = fr.attempt + 1,
                                               !.sleeps = fr.sleeps + 1]})
          /\ cresult' = NoClientResult
  /\ UNCHANGED <<WS_RETRY_ATTEMPTS, _base_url, _websocket_connections,
                 http_closed, ws_state, ws_close_calls, nextConn>>
  /\ UNCHANGED <<pgvars, obsvars, srvvars, taskvars, callvars, result,
                 respvars>>

\* connect() raises an Exception: websocket() counts the attempt and
\* re-raises it when the count has reached WS_RETRY_ATTEMPTS, and
\* otherwise sleeps for the retry delay.  err is the handshake whose
\* error is raised.
ConnectFails(fr) ==
  /\ fr.op = "websocket" /\ fr.pc = "connect"
  /\ IF fr.attempt + 1 >= WS_RETRY_ATTEMPTS
     THEN /\ cactive' = ClientWithout(fr)
          /\ cresult' = [NoClientResult EXCEPT !.op = "websocket",
                                              !.out = "ConnectError",
                                              !.err = fr.tries,
                                              !.tries = fr.tries,
                                              !.sleeps = fr.sleeps]
     ELSE /\ cactive' = ClientWithout(fr) (+)
                          SetToBag({[fr EXCEPT !.pc = "sleep",
                                               !.attempt = fr.attempt + 1,
                                               !.sleeps = fr.sleeps + 1]})
          /\ cresult' = NoClientResult
  /\ UNCHANGED <<WS_RETRY_ATTEMPTS, _base_url, _websocket_connections,
                 http_closed, ws_state, ws_close_calls, nextConn>>
  /\ UNCHANGED <<pgvars, obsvars, srvvars, taskvars, callvars, result,
                 respvars>>

\* The retry delay is over: the next handshake is awaited.
SleepDone(fr) ==
  /\ fr.op = "websocket" /\ fr.pc = "sleep"
  /\ cactive' = ClientWithout(fr) (+)
                  SetToBag({[fr EXCEPT !.pc = "connect",
                                       !.tries = fr.tries + 1]})
  /\ cresult' = NoClientResult
  /\ UNCHANGED <<WS_RETRY_ATTEMPTS, _base_url, _websocket_connections,
                 http_closed, ws_state, ws_close_calls, nextConn>>
  /\ UNCHANGED <<pgvars, obsvars, srvvars, taskvars, callvars, result,
                 respvars>>

\* The servers and the allocator as constructed, untouched by the client.
InitServers ==
  /\ start = PORT_RANGE_START
  /\ end = PORT_RANGE_END
  /\ used_ports = {}
  /\ calls = <<>>
  /\ _server_task = [h \in Servers |-> None]
  /\ _port = [h \in Servers |-> None]
  /\ _client = [h \in Servers |-> None]
  /\ _startup_complete = [h \in Servers |-> FALSE]
  /\ _shutdown_complete = [h \in Servers |-> FALSE]
  /\ task_status = [t \in TaskIds |-> "none"]
  /\ task_owner = [t \in TaskIds |-> None]
  /\ task_exc = [t \in TaskIds |-> FALSE]
  /\ should_exit = [t \in TaskIds |-> FALSE]
  /\ nextTask = 1
  /\ active = EmptyBag
  /\ result = NoResult

\* A client with the default retry count, for a valid or an invalid base
\* URL.
ClientInit ==
  /\ WS_RETRY_ATTEMPTS = DEFAULT_WS_RETRY_ATTEMPTS
  /\ _base_url \in {"http://", "localhost"}
  /\ InitClient
  /\ InitResponses
  /\ InitServers

\* Any interleaving of close() and websocket() calls on one client.
ClientNext ==
  \/ CloseCall
  \/ \E fr \in ClientFrames : CloseWsDone(fr)
  \/ \E fr \in ClientFrames : CloseWsRaises(fr)
  \/ \E fr \in ClientFrames : CloseHttpDone(fr)
  \/ \E c \in Conns : PeerCloses(c)
  \/ WsCall(NoConfig, NoOptions)
  \/ \E fr \in ClientFrames : ConnectOk(fr)
  \/ \E fr \in ClientFrames : ConnectFails(fr)
  \/ \E fr \in ClientFrames : SleepDone(fr)

SpecClient == ClientInit /\ [][ClientNext]_vars

\* A client for any base URL under any configured retry count, zero and
\* negative counts included.
RetryInit ==
  /\ WS_RETRY_ATTEMPTS \in (-1)..MaxRetry
  /\ _base_url \in {"http://", "https://", "localhost"}
  /\ InitClient
  /\ InitResponses
  /\ InitServers

\* websocket() calls on one client, each handshake succeeding or failing.
RetryNext ==
  \/ WsCall(NoConfig, NoOptions)
  \/ \E fr \in ClientFrames : ConnectOk(fr)
  \/ \E fr \in ClientFrames : ConnectFails(fr)
  \/ \E fr \in ClientFrames : SleepDone(fr)

SpecRetry == RetryInit /\ [][RetryNext]_vars

\* websocket() calls with any config and any options, one at a time, on a
\* client with the default retry count.
ConnectNext ==
  \/ /\ cactive = EmptyBag
     /\ \E config \in {NoConfig} \cup Configs :
          \E options \in OptionDicts : WsCall(config, options)
  \/ \E fr \in ClientFrames : ConnectOk(fr)
  \/ \E fr \in ClientFrames : ConnectFails(fr)
  \/ \E fr \in ClientFrames : SleepDone(fr)

SpecConnect == ClientInit /\ [][ConnectNext]_vars

\* ------------------------------------------- PortGenerator properties
Last == calls[Len(calls)]
IsGet(i) == calls[i].op = "get_port"
IsGot(i) == calls[i].op = "get_port" /\ calls[i].ok
IsRelease(i) == calls[i].op = "release_port"
NoDup(s) == \A i, j \in 1..Len(s) : i # j => s[i] # s[j]
\* The log is the history of the allocator's used set.
LogTracksUsed ==
  /\ Len(calls) > 0 => used_ports = Last.used_after
  /\ \A i \in 1..Len(calls) :
       calls[i].used_before = IF i = 1 THEN {} ELSE calls[i - 1].used_after

\* C1: get_port never returns a port that is in used_ports at the moment of
\* the call, and successive successful get_port calls with no release in
\* between return pairwise distinct ports.
C1_NoDoubleIssue ==
  /\ LogTracksUsed
  /\ \A i \in 1..Len(calls) :
       IsGot(i) => calls[i].port \notin calls[i].used_before
  /\ \A i, j \in 1..Len(calls) :
       (/\ i < j /\ IsGot(i) /\ IsGot(j)
        /\ \A k \in i..j : ~IsRelease(k))
       => calls[i].port # calls[j].port
C1_Witness ==
  /\ Len(calls) >= 2
  /\ IsGot(1) /\ IsGot(2)
  /\ calls[1].port \in calls[2].bindable

\* C3: get_port fails with RuntimeError exactly when no port of [start, end]
\* is both absent from used_ports and passes the bind probe (an empty range
\* included), and a failing call leaves used_ports unchanged.
C3_ExhaustedExactly ==
  /\ LogTracksUsed
  /\ \A i \in 1..Len(calls) :
       IsGet(i) =>
         /\ ~calls[i].ok <=>
              (\A p \in start..end :
                 p \in calls[i].used_before \/ p \notin calls[i].bindable)
         /\ ~calls[i].ok =>
              /\ calls[i].used_after = calls[i].used_before
              /\ calls[i].error \in {"No available ports in range",
                                     "No available ports found in range"}
         /\ calls[i].ok => calls[i].error = ""
C3_Witness ==
  /\ Len(calls) > 0
  /\ IsGet(Len(calls)) /\ ~Last.ok
  /\ Last.bindable \cap (start..end) # {}
  /\ (start..end) \ Last.used_before # {}
  /\ Len(Last.probed) >= 1

\* C4: a port returned by get_port lies in [start, end], passed the bind
\* probe during the call, was not in used_ports before and is in it after;
\* the call adds nothing else to used_ports and removes nothing.
C4_ReturnedPort ==
  /\ LogTracksUsed
  /\ \A i \in 1..Len(calls) :
       IsGot(i) =>
         /\ start <= calls[i].port /\ calls[i].port <= end
         /\ calls[i].port \in calls[i].bindable
         /\ calls[i].probed # <<>>
         /\ calls[i].port = calls[i].probed[Len(calls[i].probed)]
         /\ calls[i].port \notin calls[i].used_before
         /\ calls[i].used_after = calls[i].used_before \cup {calls[i].port}
C4_Witness ==
  /\ Len(calls) >= 2
  /\ IsGot(1) /\ Len(calls[1].probed) >= 2
  /\ IsGot(Len(calls))
  /\ Last.used_before # {}
  /\ (start..end) \ Last.bindable # {}

\* C5: on a single-port range a successful get_port returns that port, a
\* get_port directly after it fails, and after release_port of the port a
\* get_port that finds the port bindable returns the same port and leaves
\* the allocator in the state one acquire leaves it in.
C5_SinglePortRoundTrip ==
  (LogTracksUsed /\ start = end) =>
    \A i \in 1..Len(calls) :
      IsGot(i) =>
        /\ calls[i].port = start
        /\ calls[i].used_after = {start}
        /\ (i + 1 <= Len(calls) /\ IsGet(i + 1)) =>
             /\ ~calls[i + 1].ok
             /\ calls[i + 1].error = "No available ports in range"
        /\ (/\ i + 2 <= Len(calls)
            /\ IsRelease(i + 1) /\ calls[i + 1].arg = calls[i].port
            /\ IsGet(i + 2) /\ start \in calls[i + 2].bindable) =>
             /\ calls[i + 2].ok
             /\ calls[i + 2].port = calls[i].port
             /\ calls[i + 2].used_after = calls[i].used_after
C5_Witness ==
  /\ start = end
  /\ Len(calls) = 3
  /\ IsGot(1)
  /\ IsRelease(2) /\ calls[2].arg = calls[1].port
  /\ IsGot(3) /\ calls[3].port = calls[1].port

\* C6: release_port(p) leaves used_ports minus {p} for every integer p;
\* releasing a port that is not in the used set (never issued, outside the
\* range, already released) changes nothing.
C6_ReleaseDiscards ==
  /\ LogTracksUsed
  /\ \A i \in 1..Len(calls) :
       IsRelease(i) =>
         /\ calls[i].ok
         /\ calls[i].used_after = calls[i].used_before \ {calls[i].arg}
         /\ calls[i].arg \notin calls[i].used_before =>
              calls[i].used_after = calls[i].used_before
         /\ (i + 1 <= Len(calls) /\ IsRelease(i + 1)
             /\ calls[i + 1].arg = calls[i].arg) =>
              calls[i + 1].used_after = calls[i].used_after
C6_Witness ==
  /\ Len(calls) = 3
  /\ IsGot(1)
  /\ IsRelease(2) /\ (calls[2].arg < start \/ calls[2].arg > end)
  /\ IsRelease(3) /\ calls[3].arg = calls[1].port
  /\ used_ports = {}

\* C7: within one get_port call every candidate is probed at most once, so
\* there are at most end - start + 1 probes; a candidate that fails the
\* probe is not added to used_ports and stays available to later calls.
C7_ProbeOncePerCall ==
  /\ LogTracksUsed
  /\ \A i \in 1..Len(calls) :
       IsGet(i) =>
         /\ NoDup(calls[i].probed)
         /\ Len(calls[i].probed) <=
              (IF end >= start THEN end - start + 1 ELSE 0)
         /\ SeqToSet(calls[i].probed) \subseteq
              (start..end) \ calls[i].used_before
         /\ \A p \in SeqToSet(calls[i].probed) \ calls[i].bindable :
              /\ p \notin calls[i].used_after
              /\ (i + 1 <= Len(calls) /\ IsGet(i + 1)
                  /\ calls[i + 1].bindable = {p}) =>
                   (calls[i + 1].ok /\ calls[i + 1].port = p)
C7_Witness ==
  /\ Len(calls) >= 2
  /\ IsGet(1) /\ ~calls[1].ok /\ Len(calls[1].probed) = end - start + 1
  /\ end > start
  /\ IsGot(2) /\ calls[2].port \in SeqToSet(calls[1].probed)

\* --------------------------------------------- AsyncTestServer properties
\* In this step the call with frame fr ends.
Ended(fr) == CopiesIn(fr, active') < CopiesIn(fr, active) /\ result' # NoResult
\* In this step a start() call on handle h creates a serve task.
StartBegan(h) ==
  \E fr \in BagToSet(active') :
    fr.pc = "start_wait" /\ fr.h = h /\ fr.task = nextTask
\* In this step a start() call on handle h is entered and ends at once.
StartEndedAtOnce(h) ==
  result'.op = "start" /\ result'.h = h /\ active' = active
AliveTasks(h) == {t \in TaskIds : Alive(t) /\ task_owner[t] = h}

\* C2: any two handles that both hold an allocated port hold different
\* ports, whatever the interleaving of start() and stop() calls.
C2_DistinctPorts ==
  \A h1, h2 \in Servers :
    (h1 # h2 /\ _port[h1] # None /\ _port[h2] # None) => _port[h1] # _port[h2]
C2_Witness ==
  /\ \A h \in Servers : _port[h] # None /\ _client[h] # None
  /\ \E h \in Servers : _shutdown_complete[h]

\* C8: start() on a handle whose serve task is set fails with "Server is
\* already running" and changes neither the allocator nor the handle's
\* port, serve task and client; no serve task is created.
C8_StartRejected ==
  [][\A h \in Servers :
       _server_task[h] # None =>
         /\ ~StartBegan(h)
         /\ StartEndedAtOnce(h) =>
              /\ result'.out = "AlreadyRunning"
              /\ UNCHANGED <<used_ports, _port, _server_task, _client,
                             nextTask, task_status>>]_vars
C8_Witness ==
  /\ result.op = "start" /\ result.out = "AlreadyRunning"
  /\ _client[result.h] = None
  /\ _server_task[result.h] # None /\ Alive(_server_task[result.h])

\* C9: at most one serve task created for a handle is alive at any time.
C9_OneServeTask ==
  \A h \in Servers : Cardinality(AliveTasks(h)) <= 1

\* C10: when start() raises the startup-timed-out error, the serve task of
\* that attempt is no longer running and is cleared from the handle, and
\* the port acquired for the attempt is not in the allocator's used set.
C10_TimeoutTeardown ==
  [][\A fr \in Frames :
       (Ended(fr) /\ result'.out = "StartupTimedOut") =>
         /\ _server_task'[fr.h] = None
         /\ task_status'[fr.task] = "done"
         /\ fr.port \notin used_ports']_vars

\* C11: when start() re-raises a startup exception other than a timeout,
\* the teardown has run: the handle holds no serve task, no port and no
\* client, and the port acquired for the attempt is back in the allocator.
C11_ErrorTeardown ==
  [][\A fr \in Frames :
       (Ended(fr) /\ result'.out = "StartError") =>
         /\ _server_task'[fr.h] = None
         /\ _port'[fr.h] = None
         /\ _client'[fr.h] = None
         /\ fr.port \notin used_ports']_vars

\* C12: a start() whose serve task ended because the application failed
\* while starting up, without ever listening, ends with the application's
\* startup error; in particular it does not return successfully.
C12_StartupErrorSurfaces ==
  [][\A fr \in Frames :
       (/\ Ended(fr) /\ result'.op = "start"
        /\ fr.task # None /\ task_status[fr.task] = "failed")
       => result'.out = "ApplicationStartupError"]_vars

\* The port named by the "Server startup timed out" message: self._port as
\* it is when the except clause of start() builds the message.
TimeoutMessagePort(h) == _port[h]

\* C13: the startup-timeout error of start() names the port that was
\* allocated for that start attempt.
C13_TimeoutNamesPort ==
  [][\A fr \in Frames :
       (Ended(fr) /\ result'.out = "StartupTimedOut") =>
         TimeoutMessagePort(fr.h)' = fr.port]_vars

\* In this step a stop() call on handle h is entered and ends at once.
StopEndedAtOnce(h) ==
  result'.op = "stop" /\ result'.h = h /\ active' = active
\* In this step a stop() call on handle h is entered and suspends.
StopBegan(h) ==
  \E fr \in BagToSet(active') :
    /\ fr.pc \in {"stop_close", "stop_wait"} /\ fr.h = h /\ fr.ctx = "call"
    /\ CopiesIn(fr, active') > CopiesIn(fr, active)
\* Handle h never completed a start() successfully.
NeverStarted(h) == ~_startup_complete[h]

\* C14: stop() on a handle that never started successfully returns at once
\* without raising and changes neither the allocator nor the handle; a
\* start() that follows it on the handle (no other start() being in
\* progress there) is not rejected.
C14_StopBeforeStart ==
  [][\A h \in Servers :
       NeverStarted(h) =>
         /\ ~StopBegan(h)
         /\ StopEndedAtOnce(h) =>
              /\ result'.out = "ok"
              /\ UNCHANGED <<used_ports, srvvars, taskvars>>
         /\ (/\ result = [op |-> "stop", h |-> h, out |-> "ok"]
             /\ \A fr \in Frames : fr.h # h
             /\ StartEndedAtOnce(h))
            => result'.out # "AlreadyRunning"]_vars

\* C15: when a stop() call that had a client to close or a serve task to
\* await returns, the handle has no client, no serve task and no port, no
\* serve task of the handle is running, the awaited task has ended, the
\* port the handle held is not in used_ports and get_port can return it
\* again, and shutdown-complete is set.
C15_AfterStop ==
  [][\A fr \in Frames :
       (/\ Ended(fr) /\ fr.ctx = "call" /\ fr.pc = "stop_wait"
        /\ result' = [op |-> "stop", h |-> fr.h, out |-> "ok"])
       => /\ _client'[fr.h] = None
          /\ _server_task'[fr.h] = None
          /\ TaskDone(fr.waits)'
          /\ AliveTasks(fr.h)' = {}
          /\ _port'[fr.h] = None
          /\ _shutdown_complete'[fr.h]
          /\ _port[fr.h] # None =>
                /\ _port[fr.h] \notin used_ports'
                /\ \E out \in get_port(start, end, used_ports', {_port[fr.h]}) :
                      out.ok /\ out.port = _port[fr.h]]_vars

\* C16: stop() on a started server closes the client before it tells the
\* serve loop to exit, and the port of a handle is released, and a stop()
\* that had to wait returns, only when no serve task of the handle is
\* running, also when the task calling stop() is cancelled during the wait.
C16_StopOrder ==
  [][/\ \A t \in TaskIds :
          (should_exit'[t] /\ ~should_exit[t]) => _client'[task_owner[t]] = None
     /\ \A h \in Servers :
          (_port[h] # None /\ _port'[h] = None) =>
            /\ _client'[h] = None
            /\ AliveTasks(h)' = {}
            /\ _shutdown_complete'[h]
     /\ \A fr \in Frames :
          (/\ Ended(fr) /\ fr.ctx = "call" /\ fr.pc = "stop_wait"
           /\ result' = [op |-> "stop", h |-> fr.h, out |-> "ok"])
          => AliveTasks(fr.h)' = {}]_vars

StopWaits(h) == \E fr \in Frames : fr.h = h /\ fr.pc = "stop_wait"

\* C17: a stop() that waits for the serve task resumes only when the task
\* has ended, if need be by the cancellation the shutdown timeout
\* requested; it then clears the task, releases and clears the port, sets
\* shutdown-complete and does not raise; and every stop() that waits ends.
C17_StopTimeout ==
  /\ [][\A fr \in Frames :
          (Ended(fr) /\ fr.pc = "stop_wait") =>
            /\ TaskDone(fr.waits)
            /\ result'.out \in {"ok", "StartupTimedOut", "StartError"}
            /\ fr.ctx = "call" => result' = [op |-> "stop", h |-> fr.h, out |-> "ok"]
            /\ _server_task'[fr.h] = None
            /\ _port'[fr.h] = None
            /\ _port[fr.h] # None => _port[fr.h] \notin used_ports'
            /\ _shutdown_complete'[fr.h]]_vars
  /\ \A h \in Servers : StopWaits(h) ~> ~StopWaits(h)
C17_Witness ==
  /\ result.op = "stop" /\ result.out = "ok"
  /\ \E t \in TaskIds : task_status[t] = "cancelled"
  /\ \A t \in TaskIds : ~Alive(t)
  /\ \A h \in Servers : _server_task[h] = None /\ _port[h] = None
  /\ used_ports = {}
  /\ _shutdown_complete[result.h]

\* The fields of a handle as AsyncTestServer.__init__ leaves them.
AsConstructed(h) ==
  /\ _server_task[h] = None /\ _port[h] = None /\ _client[h] = None
  /\ ~_startup_complete[h] /\ ~_shutdown_complete[h]

\* A stop() called on its own ends normally after waiting for the serve
\* task, and no other call on the handle is in progress.
CleanStopEnds(fr) ==
  /\ Ended(fr) /\ fr.ctx = "call" /\ fr.pc = "stop_wait"
  /\ result' = [op |-> "stop", h |-> fr.h, out |-> "ok"]
  /\ \A g \in BagToSet(active') : g.h # fr.h

\* C18: after a clean stop() the handle is idle in the same sense as a
\* fresh handle: every field start() and stop() read is as the constructor
\* left it, so that each start/stop cycle meets the same handle.
C18_IdleAsFresh ==
  [][\A fr \in Frames : CleanStopEnds(fr) => AsConstructed(fr.h)']_vars

\* The host a handle is constructed with.
_host == "127.0.0.1"

\* The RuntimeError base_url and client raise.
NotRunning == <<"Server is not running">>

\* The base_url property: raises when self._port is unset, and otherwise
\* formats http://host:port.
base_url(h) ==
  IF _port[h] = None THEN NotRunning
  ELSE <<"http://", _host, ":", _port[h]>>

\* Mutant: the client property tests the port instead of the client.
client_by_port(h) ==
  IF _port[h] = None THEN NotRunning
  ELSE <<"AsyncTestClient", _port[h]>>

\* The client property: raises when self._client is unset.
client(h) ==
  IF _client[h] = None THEN NotRunning
  ELSE <<"AsyncTestClient", _client[h]>>

\* C19 as stated: on a handle whose start() has not completed successfully
\* (never started, start in progress, start failed) both base_url and
\* client fail with "Server is not running".
C19_AsStated ==
  \A h \in Servers :
    ~_startup_complete[h] =>
      base_url(h) = NotRunning /\ client(h) = NotRunning

\* C19: client fails with "Server is not running" on a handle on which no
\* start() has completed successfully and on a handle never used;
\* base_url fails with it exactly when the handle holds no port, and
\* otherwise names the port the handle holds in the allocator, which it
\* does already while start() is in progress.
C19_NotRunning ==
  \A h \in Servers :
    /\ ~_startup_complete[h] => client(h) = NotRunning
    /\ Untouched(h) => base_url(h) = NotRunning
    /\ base_url(h) = NotRunning <=> _port[h] = None
    /\ base_url(h) # NotRunning =>
          /\ base_url(h) = <<"http://", _host, ":", _port[h]>>
          /\ _port[h] \in used_ports
    /\ \A fr \in Frames :
          (fr.h = h /\ fr.pc = "start_wait" /\ _port[h] = fr.port) =>
            base_url(h) = <<"http://", _host, ":", fr.port>>
C19_Witness ==
  \E fr \in Frames :
    /\ fr.pc = "start_wait" /\ fr.ctx = "call"
    /\ ~_startup_complete[fr.h]
    /\ base_url(fr.h) = <<"http://", _host, ":", fr.port>>
    /\ client(fr.h) = NotRunning

\* create_test_server constructs a server, calls start() and, in its
\* finally clause, stop(); the body may use the server in between.  The
\* scope is left in the step in which a stop() called on its own ends while
\* no other call on the handle is in progress.  When start() raises, the
\* finally clause is reached with no suspension in between.
ScopeLeft(h) ==
  /\ result'.op = "stop" /\ result'.h = h
  /\ \/ StopEndedAtOnce(h)
     \/ \E fr \in Frames : Ended(fr) /\ fr.h = h /\ fr.ctx = "call"
  /\ \A g \in BagToSet(active') : g.h # h

\* C20: once the stop() of a create_test_server scope has ended, on
\* whatever exit path, no serve task of the server is running and the
\* server holds no port that the allocator still marks used.
C20_ScopedRelease ==
  [][\A h \in Servers :
       ScopeLeft(h) =>
         /\ AliveTasks(h)' = {}
         /\ _server_task'[h] = None
         /\ _port'[h] \notin used_ports']_vars

\* A client call whose frame is fr ends in this step.
ClientEnded(fr) ==
  /\ CopiesIn(fr, cactive') < CopiesIn(fr, cactive)
  /\ cresult' # NoClientResult
\* The close() call whose frame is fr returns in this step.
CloseReturns(fr) ==
  ClientEnded(fr) /\ fr.op = "close" /\ cresult'.op = "close"

\* C21 as stated: when close() returns, the live set is empty and the
\* HTTP transport is closed.
C21_AsStated ==
  [][\A fr \in ClientFrames :
       CloseReturns(fr) => _websocket_connections' = {} /\ http_closed']_vars

\* C21: when close() returns the HTTP transport is closed and the live
\* set holds none of the connections it held when close() cleared it,
\* whatever their number and states were; the set is empty unless a
\* websocket() call registered a connection after close() had cleared it.
C21_AfterClose ==
  [][\A fr \in ClientFrames :
       CloseReturns(fr) =>
         /\ http_closed'
         /\ cresult'.out = "ok"
         /\ \A c \in _websocket_connections' : c >= fr.mark
         /\ nextConn = fr.mark => _websocket_connections' = {}]_vars
C21_Witness ==
  /\ cresult.op = "close" /\ cresult.out = "ok"
  /\ _websocket_connections = {} /\ http_closed
  /\ cactive = EmptyBag
  /\ \E c, d \in Conns :
       /\ ws_state[c] = "CLOSED" /\ ws_close_calls[c] = 0
       /\ ws_state[d] = "CLOSED" /\ ws_close_calls[d] = 1

\* The close() call whose frame is fr goes on in this step and new is its
\* frame afterwards.
CloseGoesOn(fr, new) ==
  /\ fr.op = "close" /\ new.op = "close" /\ new.snap = fr.snap
  /\ cresult' = NoClientResult
  /\ CopiesIn(fr, cactive') < CopiesIn(fr, cactive)
  /\ CopiesIn(new, cactive') > CopiesIn(new, cactive)

\* C22: an error raised by ws.close() during close() is logged and does
\* not end close(): when close() clears the live set, every connection of
\* the list it iterated over has been found closed or has had close()
\* called on it, the set is then empty, and close() goes on to close the
\* transport and returns normally.
C22_CloseErrorsSuppressed ==
  [][\A fr \in ClientFrames :
       /\ (fr.op = "close" /\ fr.pc = "ws_close") => ~ClientEnded(fr)
       /\ \A new \in BagToSet(cactive') :
            (CloseGoesOn(fr, new) /\ new.pc = "aclose") =>
              /\ new.logged \in {fr.logged, fr.logged + 1}
              /\ _websocket_connections' = {}
              /\ \A c \in fr.snap :
                   ws_close_calls'[c] >= 1 \/ ws_state'[c] = "CLOSED"
       /\ CloseReturns(fr) =>
            /\ fr.pc = "aclose" /\ http_closed'
            /\ cresult' = [NoClientResult EXCEPT !.op = "close",
                                                 !.out = "ok",
                                                 !.err = fr.logged]]_vars
C22_Witness ==
  /\ cresult.op = "close" /\ cresult.out = "ok" /\ cresult.err = 1
  /\ _websocket_connections = {} /\ http_closed
  /\ \E c, d \in Conns :
       /\ ws_state[c] = "CLOSING" /\ ws_close_calls[c] = 1
       /\ ws_state[d] = "CLOSED" /\ ws_close_calls[d] = 1

\* The largest number of handshakes websocket() starts under the
\* configured retry count.
MaxAttempts == IF WS_RETRY_ATTEMPTS > 1 THEN WS_RETRY_ATTEMPTS ELSE 1

\* C23 as stated: websocket() with retry count N tries the handshake at
\* most N times.
C23_AsStated ==
  /\ \A fr \in ClientFrames : fr.tries <= WS_RETRY_ATTEMPTS
  /\ cresult.op = "websocket" => cresult.tries <= WS_RETRY_ATTEMPTS

\* C23: websocket() with retry count N starts at most max(1, N)
\* handshakes; when handshake k is the first to succeed it returns that
\* connection after exactly k handshakes, k - 1 of them failed; when all
\* max(1, N) handshakes fail it raises the error of the last one.
C23_Retry ==
  /\ [][\A fr \in ClientFrames :
          (ClientEnded(fr) /\ fr.op = "websocket") =>
            /\ fr.pc = "connect"
            /\ cresult'.tries = fr.attempt + 1
            /\ cresult'.tries <= MaxAttempts
            /\ cresult'.out = "ok" =>
                  /\ cresult'.conn = nextConn
                  /\ ws_state[nextConn] = "NONE"
                  /\ ws_state'[nextConn] = "OPEN"
            /\ cresult'.out # "ok" =>
                  /\ cresult'.out = "ConnectError"
                  /\ cresult'.tries = MaxAttempts
                  /\ cresult'.err = cresult'.tries]_vars
  /\ [](\A fr \in ClientFrames :
          fr.op = "websocket" =>
            fr.tries <= MaxAttempts /\ fr.attempt < MaxAttempts)
C23_Witness ==
  /\ WS_RETRY_ATTEMPTS = 3
  /\ cresult.op = "websocket" /\ cresult.out = "ok"
  /\ cresult.tries = 3 /\ cresult.conn # None

\* This step is a step of a websocket() call: the call is entered, goes
\* on or ends.
WsStep ==
  \/ cresult'.op = "websocket"
  \/ \E fr \in BagToSet(cactive) \cup BagToSet(cactive') :
       fr.op = "websocket" /\ CopiesIn(fr, cactive') # CopiesIn(fr, cactive)

\* C24: a step of websocket() leaves the live set as it is, except the
\* step in which it returns a connection, which adds exactly that
\* connection, so that the connection is in the set when the response is
\* handed back; a websocket() that raises (invalid base URL, or the last
\* handshake failed) has not changed the set in any of its steps.
C24_OnlyAddsOpened ==
  [][WsStep =>
       /\ cresult'.out = "ok" =>
            /\ cresult'.conn \notin _websocket_connections
            /\ _websocket_connections' =
                 _websocket_connections \cup {cresult'.conn}
            /\ ws_state'[cresult'.conn] = "OPEN"
       /\ cresult'.out # "ok" =>
            _websocket_connections' = _websocket_connections
       /\ cresult'.op = "websocket" =>
            cresult'.out \in {"ok", "ValueError", "ConnectError"}
       /\ cresult'.out = "ValueError" <=>
            (cresult'.op = "websocket" /\ cactive' = cactive)]_vars
C24_Witness ==
  /\ cresult.op = "websocket" /\ cresult.out = "ok" /\ cresult.conn = 2
  /\ _websocket_connections = {1, 2}
  /\ ws_state[1] = "OPEN" /\ ws_state[2] = "OPEN"

\* The value a WebSocketConfig supplies for a connect option, None (0)
\* when it supplies none.
ConfigField(config, k) ==
  CASE k = "subprotocols" -> config.subprotocols
    [] k = "compression" -> config.compression
    [] k = "additional_headers" -> config.extra_headers
    [] k = "ping_interval" -> config.ping_interval
    [] k = "ping_timeout" -> config.ping_timeout
    [] k = "max_size" -> config.max_size
    [] k = "max_queue" -> config.max_queue
    [] k = "open_timeout" -> config.timeout
\* The layered merge: the library defaults, overridden by every field the
\* config supplies, overridden by every key of the per-call options.
LayeredMerge(config, options) ==
  [k \in KwKeys |->
     IF options[k] # Absent THEN options[k]
     ELSE IF config.given /\ ConfigField(config, k) # 0
     THEN ConfigField(config, k)
     ELSE connect_kwargs(NoConfig, NoOptions)[k]]

\* C25: the connect options websocket() passes to the handshake are the
\* layered merge of defaults, config fields and per-call options; a
\* max_size or max_queue of the config is used unless a per-call option
\* overrides it.
C25_LayeredMerge ==
  \A fr \in ClientFrames :
    fr.op = "websocket" => fr.kwargs = LayeredMerge(fr.config, fr.options)

\* ---------------------------------------------------- AsyncTestResponse

\* The objects a wrapper is built from: an httpx.Response with its status
\* code and body, or the ClientConnection.
StatusCodes == {200, 404}
Bodies == {"{\"k\": 1}", "oops"}
HttpResults == [kind : {"http"}, status_code : StatusCodes, body : Bodies]
Connection == [kind |-> "ws", status_code |-> 0, body |-> ""]

\* json.loads on the texts of the model: two spellings of one document,
\* another document, a document that is not an object, and a text that is
\* not JSON.
json_loads(text) ==
  CASE text \in {"{\"k\": 1}", "{\"k\":1}"} ->
         [ok |-> TRUE, value |-> Value("dict", "k=1")]
    [] text = "{\"k\": 2}" -> [ok |-> TRUE, value |-> Value("dict", "k=2")]
    [] text = "[1]" -> [ok |-> TRUE, value |-> Value("list", "1")]
    [] OTHER -> [ok |-> FALSE, value |-> NoValue]

\* A response or helper call on wrapper r ends.
HelperResult(op, r, out, value, frame, expected, got) ==
  [op |-> op, resp |-> r, out |-> out, arg |-> NoValue, value |-> value,
   frame |-> frame, expected |-> expected, got |-> got, messages |-> <<>>]
\* The result of a call that was given the argument arg.
WithArg(res, arg) == [res EXCEPT !.arg = arg]
\* A call on wrapper r raises InvalidResponseTypeError.
WrongKind(op, r) ==
  HelperResult(op, r, "InvalidResponseTypeError", NoValue, NoValue, NoValue,
               NoValue)
\* A call on wrapper r returns a value.
Returns(op, r, value) ==
  HelperResult(op, r, "ok", value, NoValue, NoValue, NoValue)

\* Mutant: every wrapper is tagged as an HTTP response.
Construct_untagged(obj) ==
  /\ nextResp <= MaxResps
  /\ _response' = [_response EXCEPT ![nextResp] = obj]
  /\ _is_websocket' = [_is_websocket EXCEPT ![nextResp] = FALSE]
  /\ nextResp' = nextResp + 1
  /\ hresult' = NoHelperResult
  /\ UNCHANGED <<inbox, arrived, hactive, pgvars, obsvars, srvvars, taskvars,
                 callvars, result, connvars,
                 wirevars>>

\* AsyncTestResponse(response): the tag is isinstance(response,
\* ClientConnection).
Construct(obj) ==
  /\ nextResp <= MaxResps
  /\ _response' = [_response EXCEPT ![nextResp] = obj]
  /\ _is_websocket' = [_is_websocket EXCEPT ![nextResp] = (obj.kind = "ws")]
  /\ nextResp' = nextResp + 1
  /\ hresult' = NoHelperResult
  /\ UNCHANGED <<inbox, arrived, hactive, pgvars, obsvars, srvvars, taskvars,
                 callvars, result, connvars,
                 wirevars>>

\* What a call on wrapper r that only reads the wrapper leaves alone.
ReadsOnly ==
  UNCHANGED <<_response, _is_websocket, nextResp, inbox, arrived, hactive,
              pgvars, obsvars, srvvars, taskvars, callvars, result, connvars,
              wirevars>>

\* json(): raises on a WebSocket wrapper, otherwise decodes the body.
RespJson(r) ==
  /\ r < nextResp
  /\ hresult' = IF _is_websocket[r] THEN WrongKind("json", r)
                ELSE IF json_loads(_response[r].body).ok
                THEN Returns("json", r, json_loads(_response[r].body).value)
                ELSE HelperResult("json", r, "JSONDecodeError", NoValue,
                                  NoValue, NoValue, NoValue)
  /\ ReadsOnly

\* text(): raises on a WebSocket wrapper, otherwise returns the body.
RespText(r) ==
  /\ r < nextResp
  /\ hresult' = IF _is_websocket[r] THEN WrongKind("text", r)
                ELSE Returns("text", r, Value("text", _response[r].body))
  /\ ReadsOnly

\* status_code: raises on a WebSocket wrapper.
RespStatusCode(r) ==
  /\ r < nextResp
  /\ hresult' = IF _is_websocket[r] THEN WrongKind("status_code", r)
                ELSE Returns("status_code", r,
                             Value("int", ToString(_response[r].status_code)))
  /\ ReadsOnly

\* websocket(): raises on an HTTP wrapper, otherwise returns the
\* connection.
RespWebsocket(r) ==
  /\ r < nextResp
  /\ hresult' = IF ~_is_websocket[r] THEN WrongKind("websocket", r)
                ELSE Returns("websocket", r, Value("connection", ""))
  /\ ReadsOnly

\* Mutant: expect_status returns the wrapper whatever the status.
RespExpectStatus_always_ok(r, status_code) ==
  /\ r < nextResp
  /\ hresult' = WithArg(
       IF _is_websocket[r] THEN WrongKind("expect_status", r)
       ELSE Returns("expect_status", r, Value("wrapper", ToString(r))),
       Value("int", ToString(status_code)))
  /\ ReadsOnly

\* expect_status(status_code): raises on a WebSocket wrapper; the assert
\* statement fails with a message naming both codes when they differ;
\* otherwise the wrapper itself is returned.
RespExpectStatus(r, status_code) ==
  /\ r < nextResp
  /\ hresult' = WithArg(
       IF _is_websocket[r] THEN WrongKind("expect_status", r)
       ELSE IF _response[r].status_code # status_code
       THEN HelperResult("expect_status", r, "AssertionError", NoValue,
                         NoValue, Value("int", ToString(status_code)),
                         Value("int", ToString(_response[r].status_code)))
       ELSE Returns("expect_status", r, Value("wrapper", ToString(r))),
       Value("int", ToString(status_code)))
  /\ ReadsOnly

\* The wrapper calls alone.
ResponseInit == InitRest /\ InitServers
ResponseNext ==
  \/ \E obj \in HttpResults \cup {Connection} : Construct(obj)
  \/ \E r \in Resps : RespJson(r)
  \/ \E r \in Resps : RespText(r)
  \/ \E r \in Resps : RespStatusCode(r)
  \/ \E r \in Resps : RespWebsocket(r)
  \/ \E r \in Resps, status_code \in StatusCodes :
       RespExpectStatus(r, status_code)
SpecResponse == ResponseInit /\ [][ResponseNext]_vars


\* ------------------------------------------------------ WebSocketHelper

\* The frames the peer sends: text frames (two JSON objects and a text
\* that is not JSON) and a binary frame.
Texts == {"{\"k\":1}", "{\"k\": 2}", "oops"}
Messages == {Value("text", t) : t \in Texts} \cup {Value("binary", "b")}
\* The values a test expects: a dict, a str, a bytes.
Expectations ==
  {Value("dict", "k=1"), Value("text", "oops"), Value("binary", "b")}
TypeOf(frame) == Value("type", frame.kind)

\* A frame reaches the connection and is queued for recv().
FrameArrives(frame) ==
  /\ arrived < MaxFrames
  /\ ~peer_closed
  /\ inbox' = Append(inbox, frame)
  /\ arrived' = arrived + 1
  /\ UNCHANGED <<_response, _is_websocket, nextResp, hactive, hresult,
                 pgvars, obsvars, srvvars, taskvars, callvars, result,
                 connvars,
                 wirevars>>

Failed(op, r, out, frame, expected, got) ==
  HelperResult(op, r, out, NoValue, frame, expected, got)

\* Mutant: the typed receives return whatever frame came.
Deliver_unchecked(op, r, expected, frame) ==
  HelperResult(op, r, "ok", frame, frame, NoValue, NoValue)

\* What a call does with the frame recv() gave it.
Deliver(op, r, expected, frame) ==
  CASE op = "receive_json" ->
         IF frame.kind # "text"
         THEN Failed(op, r, "TypeError", frame, NoValue, TypeOf(frame))
         ELSE IF json_loads(frame.data).ok
         THEN HelperResult(op, r, "ok", json_loads(frame.data).value, frame,
                           NoValue, NoValue)
         ELSE Failed(op, r, "JSONDecodeError", frame, NoValue, NoValue)
    [] op = "receive_binary" ->
         IF frame.kind # "binary"
         THEN Failed(op, r, "TypeError", frame, NoValue, TypeOf(frame))
         ELSE HelperResult(op, r, "ok", frame, frame, NoValue, NoValue)
    [] op = "receive_text" ->
         IF frame.kind # "text"
         THEN Failed(op, r, "TypeError", frame, NoValue, TypeOf(frame))
         ELSE HelperResult(op, r, "ok", frame, frame, NoValue, NoValue)
    [] op = "expect_message" ->
         WithArg(
           IF expected.kind = "dict"
           THEN IF frame.kind # "text"
                THEN Failed(op, r, "AssertionError", frame, NoValue,
                            TypeOf(frame))
                ELSE IF ~json_loads(frame.data).ok
                THEN Failed(op, r, "JSONDecodeError", frame, NoValue,
                            NoValue)
                ELSE IF json_loads(frame.data).value # expected
                THEN Failed(op, r, "AssertionError", frame, expected, frame)
                ELSE HelperResult(op, r, "ok", NoValue, frame, NoValue,
                                  NoValue)
           ELSE IF frame # expected
                THEN Failed(op, r, "AssertionError", frame, expected, frame)
                ELSE HelperResult(op, r, "ok", NoValue, frame, NoValue,
                                  NoValue),
           expected)

\* A helper call waiting in recv(): its operation, wrapper, expectation
\* and timeout, and for drain_messages the messages collected so far.
HelperCall(op, r, expected, timeout) ==
  [op |-> op, resp |-> r, expected |-> expected, timeout |-> timeout,
   messages |-> <<>>]

\* A helper call up to its `await ws.recv()`: resp.websocket() raises on an
\* HTTP wrapper; recv() returns the oldest queued frame at once, raises
\* ConnectionClosed when none is queued and the peer has closed, or the
\* call waits for a frame. One call at a time reads from the connection.
Recv(op, r, expected, timeout) ==
  /\ r < nextResp
  /\ hactive = EmptyBag
  /\ IF ~_is_websocket[r]
     THEN /\ hresult' = WithArg(WrongKind(op, r), expected)
          /\ UNCHANGED <<inbox, hactive>>
     ELSE IF inbox # <<>>
     THEN /\ hresult' = Deliver(op, r, expected, Head(inbox))
          /\ inbox' = Tail(inbox)
          /\ UNCHANGED hactive
     ELSE IF peer_closed
     THEN /\ hresult' = WithArg(Failed(op, r, "ConnectionClosed", NoValue,
                                       NoValue, NoValue), expected)
          /\ UNCHANGED <<inbox, hactive>>
     ELSE /\ hactive' = SetToBag({HelperCall(op, r, expected, timeout)})
          /\ hresult' = NoHelperResult
          /\ UNCHANGED inbox
  /\ UNCHANGED <<_response, _is_websocket, nextResp, arrived, pgvars,
                 obsvars, srvvars, taskvars, callvars, result, connvars,
                 wirevars>>

receive_json(r) == Recv("receive_json", r, NoValue, Absent)
receive_binary(r) == Recv("receive_binary", r, NoValue, Absent)
receive_text(r) == Recv("receive_text", r, NoValue, Absent)
expect_message(r, expected, timeout) ==
  Recv("expect_message", r, expected, timeout)

HelperFrames == BagToSet(hactive)

\* The waiting call gets the oldest frame.
RecvResumes(fr) ==
  /\ fr \in HelperFrames
  /\ fr.op # "drain_messages"
  /\ inbox # <<>>
  /\ hresult' = Deliver(fr.op, fr.resp, fr.expected, Head(inbox))
  /\ inbox' = Tail(inbox)
  /\ hactive' = EmptyBag
  /\ UNCHANGED <<_response, _is_websocket, nextResp, arrived, pgvars,
                 obsvars, srvvars, taskvars, callvars, result, connvars,
                 wirevars>>

\* asyncio.wait_for gives up on the waiting recv(), which has neither a
\* frame to return nor a close to report: the cancelled recv() leaves the
\* queue as it is (a frame or a close that comes later is met by the next
\* recv()) and the TimeoutError is raised again.
ExpectTimesOut(fr) ==
  /\ fr \in HelperFrames
  /\ fr.op = "expect_message"
  /\ fr.timeout # Absent
  /\ inbox = <<>>
  /\ ~peer_closed
  /\ hresult' = WithArg(Failed(fr.op, fr.resp, "TimeoutError", NoValue,
                               NoValue, NoValue), fr.expected)
  /\ hactive' = EmptyBag
  /\ UNCHANGED <<_response, _is_websocket, nextResp, inbox, arrived, pgvars,
                 obsvars, srvvars, taskvars, callvars, result, connvars,
                 wirevars>>

\* The helpers on wrappers of both kinds, with frames arriving at any time.
HelperNext ==
  \/ \E obj \in {Connection, [kind |-> "http", status_code |-> 200,
                              body |-> "oops"]} : Construct(obj)
  \/ \E frame \in Messages : FrameArrives(frame)
  \/ \E r \in Resps : receive_json(r)
  \/ \E r \in Resps : receive_binary(r)
  \/ \E r \in Resps : receive_text(r)
  \/ \E r \in Resps, expected \in Expectations,
        timeout \in {Absent, ClientTimeout} :
       expect_message(r, expected, timeout)
  \/ \E fr \in HelperFrames : RecvResumes(fr)
  \/ \E fr \in HelperFrames : ExpectTimesOut(fr)
SpecHelper == ResponseInit /\ [][HelperNext]_vars


\* The peer closes the connection: frames already queued can still be
\* received, after them recv() raises ConnectionClosed.
ConnectionLost ==
  /\ ~peer_closed
  /\ \E r \in 1..(nextResp - 1) : _is_websocket[r]
  /\ peer_closed' = TRUE
  /\ UNCHANGED <<_response, _is_websocket, nextResp, inbox, arrived, hactive,
                 hresult, sent, pgvars, obsvars, srvvars, taskvars, callvars,
                 result, connvars>>

\* Mutant: a drain whose recv() raises ConnectionClosed returns its list.
RecvFails_returns_list(fr) ==
  /\ fr \in HelperFrames
  /\ peer_closed
  /\ inbox = <<>>
  /\ hresult' = IF fr.op = "drain_messages"
                THEN [Returns(fr.op, fr.resp, NoValue)
                        EXCEPT !.messages = fr.messages]
                ELSE WithArg(Failed(fr.op, fr.resp, "ConnectionClosed",
                                    NoValue, NoValue, NoValue), fr.expected)
  /\ hactive' = EmptyBag
  /\ UNCHANGED <<_response, _is_websocket, nextResp, inbox, arrived, pgvars,
                 obsvars, srvvars, taskvars, callvars, result, connvars,
                 wirevars>>

\* The recv() of a waiting call raises ConnectionClosed, which no helper
\* catches.
RecvFails(fr) ==
  /\ fr \in HelperFrames
  /\ peer_closed
  /\ inbox = <<>>
  /\ hresult' = WithArg(Failed(fr.op, fr.resp, "ConnectionClosed", NoValue,
                               NoValue, NoValue), fr.expected)
  /\ hactive' = EmptyBag
  /\ UNCHANGED <<_response, _is_websocket, nextResp, inbox, arrived, pgvars,
                 obsvars, srvvars, taskvars, callvars, result, connvars,
                 wirevars>>

\* drain_messages(resp, timeout) up to its first wait_for(ws.recv(),
\* timeout): resp.websocket() raises on an HTTP wrapper, otherwise the loop
\* starts with an empty list.
drain_messages(r, timeout) ==
  /\ r < nextResp
  /\ hactive = EmptyBag
  /\ IF ~_is_websocket[r]
     THEN /\ hresult' = WrongKind("drain_messages", r)
          /\ UNCHANGED hactive
     ELSE /\ hactive' = SetToBag({HelperCall("drain_messages", r, NoValue,
                                             timeout)})
          /\ hresult' = NoHelperResult
  /\ UNCHANGED <<_response, _is_websocket, nextResp, inbox, arrived, pgvars,
                 obsvars, srvvars, taskvars, callvars, result, connvars,
                 wirevars>>

\* One round of the loop: recv() returns the oldest queued frame, which is
\* appended to the list.
DrainTakes(fr) ==
  /\ fr \in HelperFrames
  /\ fr.op = "drain_messages"
  /\ inbox # <<>>
  /\ hactive' = SetToBag({[fr EXCEPT !.messages = Append(@, Head(inbox))]})
  /\ inbox' = Tail(inbox)
  /\ hresult' = NoHelperResult
  /\ UNCHANGED <<_response, _is_websocket, nextResp, arrived, pgvars,
                 obsvars, srvvars, taskvars, callvars, result, connvars,
                 wirevars>>

\* What drain_messages returns.
Drained(fr) ==
  [Returns(fr.op, fr.resp, NoValue) EXCEPT !.messages = fr.messages]

\* Mutant: the timeout of the last receive is raised to the caller.
DrainTimesOut_raises(fr) ==
  /\ fr \in HelperFrames
  /\ fr.op = "drain_messages"
  /\ fr.timeout # Absent
  /\ inbox = <<>>
  /\ ~peer_closed
  /\ hresult' = Failed(fr.op, fr.resp, "TimeoutError", NoValue, NoValue,
                       NoValue)
  /\ hactive' = EmptyBag
  /\ UNCHANGED <<_response, _is_websocket, nextResp, inbox, arrived, pgvars,
                 obsvars, srvvars, taskvars, callvars, result, connvars,
                 wirevars>>

\* wait_for gives up on a recv() that has neither a frame to return nor a
\* close to report: the TimeoutError is caught and the list collected so
\* far is returned.
DrainTimesOut(fr) ==
  /\ fr \in HelperFrames
  /\ fr.op = "drain_messages"
  /\ fr.timeout # Absent
  /\ inbox = <<>>
  /\ ~peer_closed
  /\ hresult' = Drained(fr)
  /\ hactive' = EmptyBag
  /\ UNCHANGED <<_response, _is_websocket, nextResp, inbox, arrived, pgvars,
                 obsvars, srvvars, taskvars, callvars, result, connvars,
                 wirevars>>

\* drain_messages on wrappers of both kinds, with frames arriving and the
\* peer closing at any time.
DrainNext ==
  \/ \E obj \in {Connection, [kind |-> "http", status_code |-> 200,
                              body |-> "oops"]} : Construct(obj)
  \/ \E frame \in Messages : FrameArrives(frame)
  \/ ConnectionLost
  \/ \E r \in Resps, timeout \in {Absent, ClientTimeout} :
       drain_messages(r, timeout)
  \/ \E fr \in HelperFrames : DrainTakes(fr)
  \/ \E fr \in HelperFrames : DrainTimesOut(fr)
  \/ \E fr \in HelperFrames : RecvFails(fr)
SpecDrain == ResponseInit /\ [][DrainNext]_vars

\* The event loop runs what is ready: a queued frame is handed to the
\* waiting recv(), the timer of wait_for fires when nothing comes, and a
\* close wakes the waiting recv().
SpecDrainLive ==
  /\ SpecDrain
  /\ WF_vars(\E fr \in HelperFrames : DrainTakes(fr))
  /\ WF_vars(\E fr \in HelperFrames : DrainTimesOut(fr))
  /\ WF_vars(\E fr \in HelperFrames : RecvFails(fr))


\* json.dumps on the documents of the model.
json_dumps(data) ==
  CASE data = Value("dict", "k=1") -> "{\"k\": 1}"
    [] data = Value("dict", "k=2") -> "{\"k\": 2}"
    [] data = Value("list", "1") -> "[1]"

\* What send_json, send_binary and send_text pass to ws.send(): the JSON
\* text of the data, or the data itself.
Outgoing(op, data) ==
  IF op = "send_json" THEN Value("text", json_dumps(data)) ELSE data

\* What a test sends with each helper.
Sendable(op) ==
  CASE op = "send_json" -> {Value("dict", "k=1")}
    [] op = "send_binary" -> {Value("binary", "b")}
    [] op = "send_text" -> {Value("text", "oops")}

\* Mutant: a frame is handed over ahead of the frames sent before it.
Send_ahead(op, r, data) ==
  /\ r < nextResp
  /\ Len(sent) < MaxSent
  /\ IF ~_is_websocket[r]
     THEN /\ hresult' = WithArg(WrongKind(op, r), data)
          /\ UNCHANGED sent
     ELSE /\ hresult' = WithArg(Returns(op, r, NoValue), data)
          /\ sent' = <<Outgoing(op, data)>> \o sent
  /\ UNCHANGED <<_response, _is_websocket, nextResp, inbox, arrived, hactive,
                 peer_closed, pgvars, obsvars, srvvars, taskvars, callvars,
                 result, connvars>>

\* A send helper: resp.websocket() raises on an HTTP wrapper, otherwise
\* ws.send() is called at once with the frame; on a connection the peer has
\* closed it raises ConnectionClosed.
Send(op, r, data) ==
  /\ r < nextResp
  /\ Len(sent) < MaxSent
  /\ IF ~_is_websocket[r]
     THEN /\ hresult' = WithArg(WrongKind(op, r), data)
          /\ UNCHANGED sent
     ELSE IF peer_closed
     THEN /\ hresult' = WithArg(Failed(op, r, "ConnectionClosed", NoValue,
                                       NoValue, NoValue), data)
          /\ UNCHANGED sent
     ELSE /\ hresult' = WithArg(Returns(op, r, NoValue), data)
          /\ sent' = Append(sent, Outgoing(op, data))
  /\ UNCHANGED <<_response, _is_websocket, nextResp, inbox, arrived, hactive,
                 peer_closed, pgvars, obsvars, srvvars, taskvars, callvars,
                 result, connvars>>

send_json(r, data) == Send("send_json", r, data)
send_binary(r, data) == Send("send_binary", r, data)
send_text(r, data) == Send("send_text", r, data)

\* One wrapper of the connection has been constructed.
WireInit ==
  /\ WS_RETRY_ATTEMPTS = DEFAULT_WS_RETRY_ATTEMPTS
  /\ _base_url = "http://"
  /\ InitClient
  /\ InitServers
  /\ _response = [r \in Resps |-> IF r = 1 THEN Connection ELSE NoObject]
  /\ _is_websocket = [r \in Resps |-> r = 1]
  /\ nextResp = 2
  /\ inbox = <<>>
  /\ arrived = 0
  /\ hactive = EmptyBag
  /\ hresult = NoHelperResult
  /\ sent = <<>>
  /\ peer_closed = FALSE

\* The frames the peer sends in the specification of both directions.
WireMessages ==
  {Value("text", "oops"), Value("text", "{\"k\": 2}"), Value("binary", "b")}

\* Every helper on the wrapper of one connection, with frames arriving at
\* any time.
WireNext ==
  \/ \E frame \in WireMessages : FrameArrives(frame)
  \/ \E r \in Resps : receive_json(r)
  \/ \E r \in Resps : receive_binary(r)
  \/ \E r \in Resps : receive_text(r)
  \/ \E r \in Resps, expected \in Expectations,
        timeout \in {Absent, ClientTimeout} :
       expect_message(r, expected, timeout)
  \/ \E fr \in HelperFrames : RecvResumes(fr)
  \/ \E fr \in HelperFrames : ExpectTimesOut(fr)
  \/ \E r \in Resps, timeout \in {Absent, ClientTimeout} :
       drain_messages(r, timeout)
  \/ \E fr \in HelperFrames : DrainTakes(fr)
  \/ \E fr \in HelperFrames : DrainTimesOut(fr)
  \/ \E r \in Resps, data \in Sendable("send_json") : send_json(r, data)
  \/ \E r \in Resps, data \in Sendable("send_binary") : send_binary(r, data)
  \/ \E r \in Resps, data \in Sendable("send_text") : send_text(r, data)
SpecWire == WireInit /\ [][WireNext]_vars

\* The wrappers constructed so far.
Built == 1..(nextResp - 1)
HttpOnlyOps == {"json", "text", "status_code", "expect_status"}

\* C26: the tag of a wrapper is the kind of the object it was built from
\* and no step changes the tag or the wrapped object of a constructed
\* wrapper; websocket() on an HTTP wrapper and json(), text(), status_code
\* and expect_status() on a WebSocket wrapper end with
\* InvalidResponseTypeError.
C26_TagFixed ==
  /\ [][\A r \in Built :
          /\ _is_websocket'[r] = _is_websocket[r]
          /\ _response'[r] = _response[r]]_vars
  /\ [](\A r \in Built : _is_websocket[r] = (_response[r].kind = "ws"))
  /\ [](hresult.op = "websocket" /\ _response[hresult.resp].kind = "http"
          => hresult.out = "InvalidResponseTypeError")
  /\ [](hresult.op \in HttpOnlyOps /\ _response[hresult.resp].kind = "ws"
          => hresult.out = "InvalidResponseTypeError")
\* expect_status() was refused on a WebSocket wrapper while an HTTP wrapper
\* exists beside it.
C26_Witness ==
  /\ hresult.op = "expect_status"
  /\ hresult.out = "InvalidResponseTypeError"
  /\ _response[hresult.resp].kind = "ws"
  /\ \E r \in Built : _response[r].kind = "http"

\* C27: expect_status(code) on an HTTP wrapper returns that wrapper when the
\* status of the response is code, and otherwise ends with an
\* AssertionError carrying code and the status; the step leaves every
\* wrapped response as it was.
C27_ExpectStatus ==
  /\ [](hresult.op = "expect_status" /\ _response[hresult.resp].kind = "http"
          => LET actual ==
                   Value("int", ToString(_response[hresult.resp].status_code))
             IN  IF hresult.arg = actual
                 THEN /\ hresult.out = "ok"
                      /\ hresult.value =
                           Value("wrapper", ToString(hresult.resp))
                 ELSE /\ hresult.out = "AssertionError"
                      /\ hresult.expected = hresult.arg
                      /\ hresult.got = actual)
  /\ [][hresult'.op = "expect_status" => _response' = _response]_vars
\* expect_status(404) failed on a response whose status is 200.
C27_Witness ==
  /\ hresult.op = "expect_status"
  /\ hresult.out = "AssertionError"
  /\ hresult.arg = Value("int", "404")
  /\ hresult.expected = Value("int", "404")
  /\ hresult.got = Value("int", "200")

TypedReceives == {"receive_json", "receive_text", "receive_binary"}
\* A typed receive ended on a frame (not on the wrapper's kind).
TypedReceiveEnded ==
  /\ hresult.op \in TypedReceives
  /\ hresult.out # "InvalidResponseTypeError"

\* C28: a step that takes frames takes exactly the oldest one, and a typed
\* receive ends only by taking one; receive_json and receive_text end with
\* TypeError on a binary frame and receive_binary on a text frame; on a
\* frame of the right kind receive_text and receive_binary return the
\* frame's payload and receive_json returns the decoded document, or the
\* decoder's error when the text is not JSON.
C28_TypedReceive ==
  /\ [][/\ Len(inbox') < Len(inbox)
             => inbox' = Tail(inbox) /\ hresult'.frame = Head(inbox)
        /\ hresult' # hresult /\ TypedReceiveEnded'
             => Len(inbox') < Len(inbox)]_vars
  /\ [](TypedReceiveEnded =>
          LET f == hresult.frame
              wanted == IF hresult.op = "receive_binary" THEN "binary"
                        ELSE "text"
          IN  /\ f \in Messages
              /\ f.kind # wanted => hresult.out = "TypeError"
              /\ f.kind = wanted /\ hresult.op # "receive_json"
                   => hresult.out = "ok" /\ hresult.value = f
              /\ f.kind = wanted /\ hresult.op = "receive_json"
                   => IF json_loads(f.data).ok
                      THEN /\ hresult.out = "ok"
                           /\ hresult.value = json_loads(f.data).value
                      ELSE hresult.out = "JSONDecodeError")
\* receive_binary failed on a text frame, taking it and leaving the frame
\* that came after it.
C28_Witness ==
  /\ hresult.op = "receive_binary"
  /\ hresult.out = "TypeError"
  /\ hresult.frame.kind = "text"
  /\ arrived = 2
  /\ Len(inbox) = 1


\* An expect_message call ended after reading from the connection.
ExpectEnded ==
  /\ hresult.op = "expect_message"
  /\ hresult.out # "InvalidResponseTypeError"
\* The frame is what the test expects: decoded equality for a dict, raw
\* equality otherwise.
Matches(expected, frame) ==
  IF expected.kind = "dict"
  THEN /\ frame.kind = "text"
       /\ json_loads(frame.data).ok
       /\ json_loads(frame.data).value = expected
  ELSE frame = expected

\* C29: expect_message ends in one of three ways: with a timeout error
\* and no frame taken; with an AssertionError carrying the expected value
\* and the received frame when the frame does not match; or normally when
\* the frame matches.
C29_ThreeOutcomes ==
  /\ [](ExpectEnded =>
          \/ /\ hresult.out = "TimeoutError"
             /\ hresult.frame = NoValue
          \/ /\ hresult.out = "AssertionError"
             /\ ~Matches(hresult.arg, hresult.frame)
             /\ hresult.expected = hresult.arg
             /\ hresult.got = hresult.frame
          \/ /\ hresult.out = "ok"
             /\ Matches(hresult.arg, hresult.frame))
  /\ [][hresult' # hresult /\ hresult'.out = "TimeoutError"
          => inbox' = inbox]_vars

\* C30: expect_message with a dict expectation on a text frame that is not
\* JSON ends with an AssertionError naming the expected value and the
\* received frame.
C30_AssertionNamesBoth ==
  ExpectEnded /\ hresult.arg.kind = "dict" /\ hresult.frame.kind = "text"
    /\ ~json_loads(hresult.frame.data).ok
  => /\ hresult.out = "AssertionError"
     /\ hresult.expected = hresult.arg
     /\ hresult.got = hresult.frame

\* The drain_messages calls in their loop.
Draining == {fr \in HelperFrames : fr.op = "drain_messages"}

\* C31: while drain_messages runs, the queue of the connection changes
\* only by a frame arriving at its end or by the drain taking the oldest
\* frame and appending it to its list; the drain ends by a timeout only
\* when no frame is queued, taking nothing, and then returns its list
\* normally; a TimeoutError never reaches the caller; and with no helper
\* call running, frames that arrive stay queued.
C31_DrainCollects ==
  /\ [][\A fr \in Draining :
          IF hactive' # EmptyBag
          THEN \E g \in Draining' :
                 \/ /\ g = fr
                    /\ \/ inbox' = inbox
                       \/ \E f \in Messages : inbox' = Append(inbox, f)
                 \/ /\ inbox # <<>>
                    /\ g = [fr EXCEPT !.messages = Append(@, Head(inbox))]
                    /\ inbox' = Tail(inbox)
          ELSE /\ hresult'.op = "drain_messages"
               /\ hresult'.resp = fr.resp
               /\ inbox = <<>> /\ inbox' = <<>>
               /\ \/ /\ hresult'.out = "ok"
                     /\ hresult'.messages = fr.messages
                     /\ fr.timeout # Absent
                  \/ /\ hresult'.out = "ConnectionClosed"
                     /\ peer_closed]_vars
  /\ [][hactive = EmptyBag /\ hactive' = EmptyBag
          => \/ inbox' = inbox
             \/ \E f \in Messages : inbox' = Append(inbox, f)]_vars
  /\ [](hresult.op = "drain_messages" => hresult.out # "TimeoutError")
\* A drain returned the two frames that had arrived, in their order, and
\* the frame that came after its timeout is still queued.
C31_Witness ==
  /\ hresult.op = "drain_messages"
  /\ hresult.out = "ok"
  /\ hresult.messages = <<Value("text", "oops"), Value("binary", "b")>>
  /\ hactive = EmptyBag
  /\ Len(inbox) = 1
  /\ arrived = 3

\* A drain with a finite timeout is in its loop.
DrainingFinite == \E fr \in Draining : fr.timeout # Absent

\* C39: a drain with a finite timeout ends once the peer stops sending or
\* closes; a drain ends only when no frame is queued, and without a
\* timeout only by the peer closing; and a drain that meets the peer's
\* close ends with the close error and returns none of the frames it
\* collected.
C39_DrainEnds ==
  /\ DrainingFinite ~> hactive = EmptyBag
  /\ [][\A fr \in Draining :
          hactive' = EmptyBag =>
            /\ inbox = <<>>
            /\ fr.timeout = Absent => hresult'.out = "ConnectionClosed"
            /\ peer_closed => /\ hresult'.out = "ConnectionClosed"
                              /\ hresult'.messages = <<>>
                              /\ hresult'.value = NoValue]_vars
\* The peer closed while a drain had collected a frame, and the drain
\* ended with the close error.
C39_Witness ==
  /\ hresult.op = "drain_messages"
  /\ hresult.out = "ConnectionClosed"
  /\ peer_closed
  /\ arrived >= 1
  /\ inbox = <<>>

Receivers == TypedReceives \cup {"expect_message"}
Senders == {"send_json", "send_binary", "send_text"}
\* A receive helper ended on a frame, normally or with an error about it.
ReceiveEnded ==
  /\ hresult.op \in Receivers
  /\ hresult.out \in {"ok", "TypeError", "AssertionError", "JSONDecodeError"}
\* A send helper returned.
SendEnded == hresult.op \in Senders /\ hresult.out = "ok"

HeldPorts == {_port[h] : h \in {g \in Servers : _port[g] # None}}

\* C33: in every state the used set of the shared allocator is the set of
\* the ports held by server handles, whatever start() and stop() calls have
\* run and however they ended.
C33_Ownership == used_ports = HeldPorts

\* C35: a stop() call on a server that was started ends, normally or by an
\* exception, with the port of the handle released from the allocator, the
\* handle holding no port, and shutdown-complete set.
C35_StopAlwaysReleases ==
  [][(result' # NoResult /\ result'.op = "stop"
      /\ _startup_complete[result'.h]) =>
       /\ _port'[result'.h] = None
       /\ _port[result'.h] # None => _port[result'.h] \notin used_ports'
       /\ _shutdown_complete'[result'.h]]_vars


C37_AttemptsAndSleeps ==
  /\ \A fr \in ClientFrames :
       fr.op = "websocket" =>
         /\ fr.pc = "connect" => fr.sleeps = fr.tries - 1
         /\ fr.pc = "sleep" =>
              fr.sleeps = fr.tries /\ fr.tries < MaxAttempts
  /\ (cresult.op = "websocket" /\ cresult.out \in {"ok", "ConnectError"}) =>
       cresult.sleeps = cresult.tries - 1
  /\ (cresult.op = "websocket" /\ cresult.out = "ConnectError") =>
       /\ cresult.tries = MaxAttempts
       /\ WS_RETRY_ATTEMPTS <= 1 =>
            cresult.tries = 1 /\ cresult.sleeps = 0
\* With retry count 3 a call has raised after three failed handshakes and
\* two sleeps.
C37_Witness ==
  /\ WS_RETRY_ATTEMPTS = 3
  /\ cresult.op = "websocket" /\ cresult.out = "ConnectError"
  /\ cresult.tries = 3 /\ cresult.sleeps = 2


\* C38: a connection leaves the live set only closed or with a close
\* attempted on it, and when close() returns, every connection registered
\* since that close() began is closed, has had a close attempted, or is
\* still in the live set.
C38_NoSilentRemoval ==
  [][/\ \A c \in _websocket_connections \ _websocket_connections' :
          ws_state'[c] = "CLOSED" \/ ws_close_calls'[c] > 0
     /\ \A fr \in ClientFrames :
          CloseReturns(fr) =>
            \A c \in Conns :
              (ws_state'[c] # "NONE" /\ c \notin fr.snap) =>
                \/ ws_state'[c] = "CLOSED"
                \/ ws_close_calls'[c] > 0
                \/ c \in _websocket_connections']_vars


\* C36: a handle whose client is set has a serve task and a port, the port
\* is in the used set of the allocator, and the client's base URL names
\* that port.
C36_RunningState ==
  \A h \in Servers :
    _client[h] # None =>
      /\ _server_task[h] # None
      /\ _port[h] # None
      /\ _port[h] \in used_ports
      /\ _client[h] = _port[h]

============================================================================
